---- MODULE Spec2Model ----
(***************************************************************************)
(* A model of the query-generation and time-range-refinement pipeline of   *)
(* vizAi_NL2SQL: the batch date refiner and the single-query updater       *)
(* (src/app/services/time_based.py), the draft generator                   *)
(* (src/app/services/query_generator.py and the older src/query_generator  *)
(* .py), the SQLQueryItem validators (src/app/models/sql_models.py) and    *)
(* the NL-to-SQL generator with its request handler                        *)
(* (src/app/services/NL2SQL.py, src/app/api/nl_to_sql.py), the generate    *)
(* request handler (src/app/api/queries.py) and the query executor         *)
(* (src/app/utils/query_exec.py and the older src/query_exec.py).           *)
(*                                                                         *)
(* Text is modelled as a sequence of tokens, each token standing for the   *)
(* characters it spells (Fence is a markdown fence, " " a run of blanks,   *)
(* "\n" a line break).  Chart-type labels are sequences of characters so   *)
(* that str.lower() is computed letter by letter.  Exception messages are  *)
(* atomic strings.  The language model is an oracle fixed in the initial   *)
(* state: for each request it either returns a text or raises.             *)
(***************************************************************************)
EXTENDS Integers, Sequences, FiniteSets, TLC

VARIABLES
    \* ---- batch refiner: update_time_based_queries / update_queries ----
    query_request,     \* the TimeBasedQueriesUpdateRequest of the running call
    llm_reply,         \* oracle: llm_reply[i] is what update_chain.invoke gives for item i
    r_pc,              \* "off" | "loop" | "returned" | "raised"
    r_i,               \* 1-based position of the for loop
    updated_queries,   \* the list the loop appends to
    r_exc,             \* message of the exception leaving the function, or None
    llm_calls,         \* the invoke() inputs issued so far, in order
    http_status,       \* status of the update_queries handler: 0 (none yet), 200, 500
    \* ---- single-query updater: update_query_date_range ----
    su_pc,             \* "off" | "ready" | "done"
    su_result,         \* the dict it returned, or NoResult
    \* ---- draft generator: QueryGenerator(...) and generate_queries ----
    dg_rev,            \* "app": src/app/services/query_generator.py, "root": src/query_generator.py
    dg_db_type_arg,    \* the db_type argument of the constructor
    dg_self,           \* the fields __init__ set on the instance, or NoResult
    dg_llm_calls,      \* the draft_chain.invoke() inputs issued so far, in order
    draft_reply,       \* oracle: what draft_chain.invoke gives
    min_max_dates,     \* the min_max_dates argument (app revision)
    db_dates,          \* what fetch_relevant_min_max_dates returns (root revision)
    dg_pc,             \* "off" | "new" | "call" | "returned" | "raised"
    dg_queries,        \* .queries of the SQLQueryResponse returned
    dg_exc,            \* message of the exception leaving generate_queries, or None
    executor_result,   \* whether get_queries_for_executor returned, and its list
    \* ---- NL-to-SQL: NLQToSQLGenerator.convert_nlq_to_sql and its handler ----
    nlq_request,       \* nl_query, db_schema, db_type of the request
    nlq_reply,         \* oracle: what query_chain.invoke gives
    nlq_llm_calls,     \* the query_chain.invoke() inputs issued so far, in order
    nlq_pc,            \* "off" | "call" | "converted" | "responded"
    nlq_result,        \* the NLQResponse the service returned, or NoResult
    nlq_exc,           \* message of the exception leaving the service, or None
    nlq_response,      \* the body the handler returned, or NoResult
    nlq_status,        \* status of the handler: 0 (none yet), 200, 500
    \* ---- SQLQueryItem validation on its own ----
    v_raw,             \* the field values handed to SQLQueryItem(...)
    v_pc,              \* "off" | "call" | "done"
    v_result,          \* <<"ok", item>> or <<"error", message>>, or NoResult
    \* ---- extract_sql_from_response on its own ----
    x_text,            \* the response text handed to the extractor
    x_pc,              \* "off" | "call" | "once" | "twice"
    x_result,          \* what the extractor returned for x_text
    x_again,           \* what the extractor returned for x_result
    \* ---- is_time_based_query on its own ----
    cl_query,          \* the query text handed to the classifier
    cl_order,          \* the order in which the loop tries time_patterns
    cl_pc,             \* "off" | "call" | "done"
    cl_result,         \* the boolean it returned
    cl_tried,          \* how many patterns the loop tried
    \* ---- refine_time_based_query on its own ----
    sub_rev,           \* "app" or "root": which revision's method is called
    sub_query,         \* the query text handed to the method
    sub_dates,         \* the min and max bound it works with
    sub_pc,            \* "off" | "call" | "done"
    sub_result,        \* the text it returned
    \* ---- the request handler get_queries of src/app/api/queries.py ----
    request_data,      \* min_date, max_date and db_type of the QueryRequest
    h_reply,           \* oracle: what draft_chain.invoke gives to this request
    h_pc,              \* "off" | "call" | "done"
    h_min_max_dates,   \* the min_max_dates the handler handed to the generator
    h_response,        \* .queries of the QueriesForExecutorResponse, or NoList
    h_status,          \* status of the handler: 0 (none yet), 200, 500
    \* ---- DatabaseQueryExecutor.execute_queries ----
    ex_rev,            \* "app": src/app/utils/query_exec.py, "root": src/query_exec.py
    ex_queries,        \* the list of query_info dicts handed to execute_queries
    ex_db,             \* oracle: ex_db[i] is what the database does with query i
    ex_pc,             \* "off" | "loop" | "returned" | "raised"
    ex_i,              \* 1-based position of the for loop
    results,           \* the list the loop appends to
    ex_executed,       \* the positions whose query was handed to session.execute
    ex_exc,            \* message of the exception leaving execute_queries, or None
    \* ---- the model calls of one batch refinement, step by step ----
    in_flight,         \* the positions whose update_chain.invoke has not come back
    \* ---- a process serving several requests one after the other ----
    s_pc,              \* "off" | "serving"
    s_defaults,        \* the list object behind the default of min_max_dates
    s_history          \* one record per finished call: its inputs and its result

refine_vars == <<query_request, llm_reply, r_pc, r_i, updated_queries, r_exc,
                 llm_calls, http_status, su_pc, su_result>>
draft_vars == <<dg_rev, dg_db_type_arg, dg_self, dg_llm_calls, draft_reply,
                min_max_dates, db_dates, dg_pc, dg_queries, dg_exc, executor_result>>
nlq_vars == <<nlq_request, nlq_reply, nlq_llm_calls, nlq_pc, nlq_result, nlq_exc,
              nlq_response, nlq_status>>
validate_vars == <<v_raw, v_pc, v_result>>
extract_vars == <<x_text, x_pc, x_result, x_again>>
classify_vars == <<cl_query, cl_order, cl_pc, cl_result, cl_tried>>
session_vars == <<s_pc, s_defaults, s_history>>
substitute_vars == <<sub_rev, sub_query, sub_dates, sub_pc, sub_result>>
handler_vars == <<request_data, h_reply, h_pc, h_min_max_dates, h_response, h_status>>
executor_vars == <<ex_rev, ex_queries, ex_db, ex_pc, ex_i, results, ex_executed, ex_exc>>
flight_vars == <<in_flight>>
unit_vars == <<substitute_vars, handler_vars, executor_vars, flight_vars>>
pure_vars == <<extract_vars, classify_vars, session_vars, unit_vars>>

vars == <<refine_vars, draft_vars, nlq_vars, validate_vars, pure_vars>>

-----------------------------------------------------------------------------
(* Bounds of the model. *)

\* longest batch handed to the refiner
MaxBatch == 3
\* most items in the model's reply to the draft prompt
MaxDraft == 2

-----------------------------------------------------------------------------
(* Python values. *)

None == "None"
\* None in a field that otherwise holds a text (a sequence of tokens)
NoneText == <<"<None>">>
NoResult == [kind |-> "none"]
\* the result slot of a function that was not called or did not return
NoList == [returned |-> FALSE, queries_list |-> <<>>]

\* obj[key] is defined for dicts and lists; a pydantic model and a coroutine
\* object have no __getitem__, so subscripting them raises TypeError.
Subscriptable(kind) == kind \in {"dict", "list"}

NotSubscriptableMsg(kind) ==
    CASE kind = "pydantic_model" -> "'TimeBasedQueryItem' object is not subscriptable"
      [] kind = "coroutine"      -> "'coroutine' object is not subscriptable"
      [] OTHER                   -> "object is not subscriptable"

-----------------------------------------------------------------------------
(* The state of an entry point that is not called. *)

RefineOff ==
    /\ query_request = [queries |-> <<>>, min_date |-> None, max_date |-> None,
                        db_type |-> None]
    /\ llm_reply = <<>>
    /\ r_pc = "off"
    /\ r_i = 1
    /\ updated_queries = <<>>
    /\ r_exc = None
    /\ llm_calls = <<>>
    /\ http_status = 0
    /\ su_pc = "off"
    /\ su_result = NoResult

DraftOff ==
    /\ dg_rev = "app"
    /\ dg_db_type_arg = None
    /\ dg_self = NoResult
    /\ dg_llm_calls = <<>>
    /\ draft_reply = [kind |-> "none"]
    /\ min_max_dates = <<>>
    /\ db_dates = <<>>
    /\ dg_pc = "off"
    /\ dg_queries = <<>>
    /\ dg_exc = None
    /\ executor_result = NoList

NlqOff ==
    /\ nlq_request = [kind |-> "none"]
    /\ nlq_reply = [kind |-> "none"]
    /\ nlq_llm_calls = <<>>
    /\ nlq_pc = "off"
    /\ nlq_result = NoResult
    /\ nlq_exc = None
    /\ nlq_response = NoResult
    /\ nlq_status = 0

ValidateOff ==
    /\ v_raw = [kind |-> "none"]
    /\ v_pc = "off"
    /\ v_result = NoResult

ExtractOff ==
    /\ x_text = <<>>
    /\ x_pc = "off"
    /\ x_result = <<>>
    /\ x_again = <<>>

ClassifyOff ==
    /\ cl_query = <<>>
    /\ cl_order = <<>>
    /\ cl_pc = "off"
    /\ cl_result = FALSE
    /\ cl_tried = 0

SessionOff ==
    /\ s_pc = "off"
    /\ s_defaults = <<>>
    /\ s_history = <<>>

SubstituteOff ==
    /\ sub_rev = "app"
    /\ sub_query = <<>>
    /\ sub_dates = <<>>
    /\ sub_pc = "off"
    /\ sub_result = <<>>

HandlerOff ==
    /\ request_data = [kind |-> "none"]
    /\ h_reply = [kind |-> "none"]
    /\ h_pc = "off"
    /\ h_min_max_dates = <<>>
    /\ h_response = NoList
    /\ h_status = 0

ExecutorOff ==
    /\ ex_rev = "app"
    /\ ex_queries = <<>>
    /\ ex_db = <<>>
    /\ ex_pc = "off"
    /\ ex_i = 1
    /\ results = <<>>
    /\ ex_executed = {}
    /\ ex_exc = None

FlightOff == in_flight = {}

UnitOff == SubstituteOff /\ HandlerOff /\ ExecutorOff /\ FlightOff

PureOff == ExtractOff /\ ClassifyOff /\ SessionOff /\ UnitOff

-----------------------------------------------------------------------------
(* Text helpers: re.search with a lazy group between fences, str.strip. *)

\* the token for a markdown fence, three backticks
Fence == "<fence>"
IsSpace(t) == t \in {" ", "\n"}

SetMin(S) == CHOOSE x \in S : \A y \in S : x <= y
SetMax(S) == CHOOSE x \in S : \A y \in S : x >= y

\* a faulty variant of Strip that drops leading whitespace only
StripLeading(s) ==
    LET keep == {i \in 1..Len(s) : ~IsSpace(s[i])}
    IN  IF keep = {} THEN <<>> ELSE SubSeq(s, SetMin(keep), Len(s))

\* str.strip(): drop leading and trailing whitespace
Strip(s) ==
    LET keep == {i \in 1..Len(s) : ~IsSpace(s[i])}
    IN  IF keep = {} THEN <<>> ELSE SubSeq(s, SetMin(keep), SetMax(keep))

\* the token for one backtick that is not part of a Fence token
Tick == "<tick>"

\* the text with every Fence spelled out as three backticks, which is what
\* the regular expressions see
RECURSIVE Chars(_)
Chars(s) ==
    IF s = <<>> THEN <<>>
    ELSE (IF Head(s) = Fence THEN <<Tick, Tick, Tick>> ELSE <<Head(s)>>) \o Chars(Tail(s))

\* three backticks start at position i
FenceAt(cs, i) ==
    /\ i + 2 <= Len(cs)
    /\ cs[i] = Tick /\ cs[i + 1] = Tick /\ cs[i + 2] = Tick

\* re.search of fence, tag, whitespace, lazy group, whitespace, fence with
\* re.DOTALL: the opening positions (in Chars(s)) that have the tag behind
\* them and a closing fence after it; tag = <<>> is the untagged pattern.
FenceStarts(s, tag) ==
    LET cs == Chars(s)
    IN  {i \in 1..Len(cs) :
            /\ FenceAt(cs, i)
            /\ i + 2 + Len(tag) <= Len(cs)
            /\ \A k \in 1..Len(tag) : cs[i + 2 + k] = tag[k]
            /\ \E j \in (i + 3 + Len(tag))..Len(cs) : FenceAt(cs, j)}

FenceFound(s, tag) == FenceStarts(s, tag) /= {}

\* a faulty variant of FenceGroup whose group is greedy: it runs to the last
\* closing fence
FenceGroupGreedy(s, tag) ==
    LET cs == Chars(s)
        i == SetMin(FenceStarts(s, tag))
        a == i + 3 + Len(tag)
        j == SetMax({q \in a..Len(cs) : FenceAt(cs, q)})
    IN  Strip(SubSeq(cs, a, j - 1))

\* group(1) of the leftmost match: the lazy group stops at the first closing
\* fence, and the two \s* around it eat the whitespace at both ends.
FenceGroup(s, tag) ==
    LET cs == Chars(s)
        i == SetMin(FenceStarts(s, tag))
        a == i + 3 + Len(tag)
        j == SetMin({q \in a..Len(cs) : FenceAt(cs, q)})
    IN  Strip(SubSeq(cs, a, j - 1))

\* a faulty variant of extract_sql_and_explanation that falls back like
\* extract_sql_from_response instead of returning the fixed text
extract_sql_and_explanation_fallback(response) ==
    LET sql_query ==
            IF FenceFound(response, <<"sql">>) THEN Strip(FenceGroup(response, <<"sql">>))
            ELSE IF FenceFound(response, <<>>) THEN Strip(FenceGroup(response, <<>>))
            ELSE Strip(response)
        explanation ==
            IF FenceFound(response, <<"text">>) THEN Strip(FenceGroup(response, <<"text">>))
            ELSE <<"No explanation provided.">>
    IN  <<sql_query, explanation>>

\* a faulty variant of extract_sql_from_response that takes the first fenced
\* block of any kind before it looks for an sql-tagged one
extract_sql_from_response_any_first(response) ==
    IF FenceFound(response, <<>>) THEN Strip(FenceGroup(response, <<>>))
    ELSE IF FenceFound(response, <<"sql">>) THEN Strip(FenceGroup(response, <<"sql">>))
    ELSE Strip(response)

\* extract_sql_from_response: sql-tagged block, else any block, else the text
extract_sql_from_response(response) ==
    IF FenceFound(response, <<"sql">>) THEN Strip(FenceGroup(response, <<"sql">>))
    ELSE IF FenceFound(response, <<>>) THEN Strip(FenceGroup(response, <<>>))
    ELSE Strip(response)

\* extract_sql_and_explanation: the sql-tagged and the text-tagged block, each
\* with a fixed text in its place when the block is missing
extract_sql_and_explanation(response) ==
    LET sql_query ==
            IF FenceFound(response, <<"sql">>) THEN Strip(FenceGroup(response, <<"sql">>))
            ELSE <<"No valid SQL found.">>
        explanation ==
            IF FenceFound(response, <<"text">>) THEN Strip(FenceGroup(response, <<"text">>))
            ELSE <<"No explanation provided.">>
    IN  <<sql_query, explanation>>

-----------------------------------------------------------------------------
(* SQLQueryItem and its validators, src/app/models/sql_models.py (the same *)
(* class is declared in src/query_generator.py).                            *)

\* chart-type labels, spelled letter by letter
Bar == <<"B", "a", "r">>
Line == <<"L", "i", "n", "e">>
Area == <<"A", "r", "e", "a">>
Pie == <<"P", "i", "e">>
Donut == <<"D", "o", "n", "u", "t">>
Radian == <<"R", "a", "d", "i", "a", "n">>
Scatter == <<"S", "c", "a", "t", "t", "e", "r">>
Scatterplot == <<"S", "c", "a", "t", "t", "e", "r", "p", "l", "o", "t">>
line_lowercase == <<"l", "i", "n", "e">>
Heatmap == <<"H", "e", "a", "t", "m", "a", "p">>
NoneLabel == <<"N", "o", "n", "e">>

\* valid_chart_types of chart_type_must_be_valid
valid_chart_types == {Bar, Line, Area, Pie, Donut, Radian, Scatterplot}

\* the chart types the draft prompt of src/app/services/query_generator.py
\* tells the model to choose from (lines 58-64)
prompt_chart_types == {Bar, Line, Area, Pie, Donut, Scatter}

\* Relevance scores are counted in thousandths: 1000 is 1.0, 1500 is 1.5.
\* round(v, 2) for v >= 0; the scores of the model never end in 5 thousandths,
\* where the float's binary expansion would decide the direction.
Round2(v) == ((v + 5) \div 10) * 10

\* a faulty variant of relevance_in_range that clamps instead of rejecting
relevance_always_in_range(v) == TRUE

\* Field(ge=0.0, le=1.0) and `if not 0 <= v <= 1: raise ValueError`
relevance_in_range(v) == 0 <= v /\ v <= 1000

\* relevance_must_be_between_0_and_1: the value the validator returns
relevance_must_be_between_0_and_1(v) == Round2(v)

\* chart_type_must_be_valid: whether the validator accepts v (it returns v)
chart_type_must_be_valid(v) == v \in valid_chart_types

\* SQLQueryItem(**raw): <<"ok", item>> or <<"error", message>>; relevance is
\* validated before chart_type (field order), and pydantic reports every
\* failing field in one ValidationError
ValidationMessage(raw) ==
    IF ~relevance_in_range(raw.relevance) /\ ~chart_type_must_be_valid(raw.chart_type)
    THEN "2 validation errors for SQLQueryItem: relevance, chart_type"
    ELSE IF ~relevance_in_range(raw.relevance)
    THEN "1 validation error for SQLQueryItem: relevance"
    ELSE "1 validation error for SQLQueryItem: chart_type"

SQLQueryItem(raw) ==
    IF relevance_in_range(raw.relevance) /\ chart_type_must_be_valid(raw.chart_type)
    THEN <<"ok", [question |-> raw.question,
                  query |-> raw.query,
                  relevance |-> relevance_must_be_between_0_and_1(raw.relevance),
                  is_time_based |-> raw.is_time_based,
                  chart_type |-> raw.chart_type]>>
    ELSE <<"error", ValidationMessage(raw)>>

-----------------------------------------------------------------------------
(* The time-based classifier and the placeholder substitution of           *)
(* QueryGenerator, src/app/services/query_generator.py lines 78-108 and    *)
(* src/query_generator.py lines 198-231.  A query text is a sequence of    *)
(* word tokens; the tables below say what each token spells.               *)

\* str.upper() of a token, for re.IGNORECASE
Upper(t) ==
    CASE t = "year" -> "YEAR"
      [] t = "between" -> "BETWEEN"
      [] t = "and" -> "AND"
      [] t = "group by" -> "GROUP BY"
      [] t = "date_sub" -> "DATE_SUB"
      [] t = "order_date" -> "ORDER_DATE"
      [] t = "[min_date]" -> "[MIN_DATE]"
      [] t = "[max_date]" -> "[MAX_DATE]"
      [] OTHER -> t

\* the pattern keywords that occur inside the (upper-cased) token
Keywords(T) ==
    CASE T = "DATE_FORMAT" -> {"DATE_FORMAT", "DATE"}
      [] T = "DATE_SUB" -> {"DATE_SUB", "DATE"}
      [] T = "DATE_ADD" -> {"DATE_ADD", "DATE"}
      [] T = "DATE_DIFF" -> {"DATE_DIFF", "DATE"}
      [] T = "ORDER_DATE" -> {"DATE"}
      [] T = "YEAR" -> {"YEAR"}
      [] T = "MONTH" -> {"MONTH"}
      [] T = "DAY" -> {"DAY"}
      [] T = "WEEKDAY" -> {"WEEK", "DAY"}
      [] T = "QUARTER" -> {"QUARTER"}
      [] T = "WEEK" -> {"WEEK"}
      [] T = "BETWEEN" -> {"BETWEEN"}
      [] T = "AND" -> {"AND"}
      [] T = "BRAND" -> {"AND"}
      [] T = "GROUP BY" -> {"GROUP BY"}
      [] T = "[MIN_DATE]" -> {"[MIN_DATE]", "DATE"}
      [] T = "[MAX_DATE]" -> {"[MAX_DATE]", "DATE"}
      [] OTHER -> {}

Has(t, kw) == kw \in Keywords(Upper(t))

\* the keyword is the end of the token, so that whitespace and "(" can follow
EndsWith(t, kw) ==
    LET T == Upper(t)
    IN  \/ T = kw
        \/ T = "WEEKDAY" /\ kw = "DAY"

\* a literal that starts with four digits, a dash, two digits, a dash, two digits
IsDateLiteral(t) == t \in {"2024-01-01", "2024-12-31", "2020-01-01", "2023-12-31"}

\* time_patterns, in the order of the list
time_patterns ==
    << [kind |-> "word", kw |-> "DATE_FORMAT"],
       [kind |-> "call", kw |-> "YEAR"],
       [kind |-> "call", kw |-> "MONTH"],
       [kind |-> "call", kw |-> "DAY"],
       [kind |-> "call", kw |-> "QUARTER"],
       [kind |-> "call", kw |-> "WEEK"],
       [kind |-> "word", kw |-> "DATE_SUB"],
       [kind |-> "word", kw |-> "DATE_ADD"],
       [kind |-> "word", kw |-> "DATE_DIFF"],
       [kind |-> "span", kw |-> "AND"],
       [kind |-> "cmp", kw |-> ">"],
       [kind |-> "cmp", kw |-> "<"],
       [kind |-> "group", kw |-> "YEAR"],
       [kind |-> "group", kw |-> "MONTH"],
       [kind |-> "group", kw |-> "QUARTER"],
       [kind |-> "group", kw |-> "DATE"],
       [kind |-> "word", kw |-> "[MIN_DATE]"],
       [kind |-> "word", kw |-> "[MAX_DATE]"] >>

\* re.search(pattern, query, re.IGNORECASE); "." does not match a newline
PatternMatches(p, query) ==
    CASE p.kind = "word" ->
            \E i \in 1..Len(query) : Has(query[i], p.kw)
      [] p.kind = "call" ->
            \E i \in 1..Len(query) : \E j \in (i + 1)..Len(query) :
                /\ EndsWith(query[i], p.kw)
                /\ query[j] = "("
                /\ \A k \in (i + 1)..(j - 1) : IsSpace(query[k])
      [] p.kind = "span" ->
            \E i \in 1..Len(query) : \E j \in (i + 1)..Len(query) :
                /\ Has(query[i], "BETWEEN")
                /\ Has(query[j], p.kw)
                /\ \A k \in (i + 1)..(j - 1) : query[k] /= "\n"
      [] p.kind = "cmp" ->
            \E i \in 1..Len(query) : \E j \in (i + 1)..Len(query) :
                /\ query[i] = p.kw
                /\ IsDateLiteral(query[j])
                /\ \A k \in (i + 1)..(j - 1) : IsSpace(query[k])
      [] p.kind = "group" ->
            \E i \in 1..Len(query) : \E j \in (i + 1)..Len(query) :
                /\ Upper(query[i]) = "GROUP BY"
                /\ Has(query[j], p.kw)
                /\ \A k \in (i + 1)..(j - 1) : query[k] /= "\n"

\* a faulty variant of FirstMatch whose loop returns after its first pattern
FirstMatchHeadOnly(patterns, query) ==
    IF patterns /= <<>> /\ PatternMatches(patterns[1], query) THEN 1 ELSE 0

\* the index of the first pattern of the list that matches, 0 when none does
FirstMatch(patterns, query) ==
    LET hits == {n \in 1..Len(patterns) : PatternMatches(patterns[n], query)}
    IN  IF hits = {} THEN 0 ELSE SetMin(hits)

\* is_time_based_query: the loop returns True at the first matching pattern
is_time_based_query(query) == FirstMatch(time_patterns, query) /= 0

\* `not value`: None and the empty string are falsy
Truthy(text) == text /= NoneText /\ text /= <<>>

\* str.replace(old, new) for a one-token old
RECURSIVE ReplaceToken(_, _, _)
ReplaceToken(text, old, new) ==
    IF text = <<>> THEN <<>>
    ELSE (IF Head(text) = old THEN new ELSE <<Head(text)>>)
            \o ReplaceToken(Tail(text), old, new)

\* str.replace("''", "'"): left to right, without overlap
RECURSIVE ReplaceDoubledQuotes(_)
ReplaceDoubledQuotes(text) ==
    IF Len(text) < 2 THEN text
    ELSE IF text[1] = "'" /\ text[2] = "'"
         THEN <<"'">> \o ReplaceDoubledQuotes(SubSeq(text, 3, Len(text)))
         ELSE <<text[1]>> \o ReplaceDoubledQuotes(Tail(text))

\* a faulty variant of refine_time_based_query that leaves [MAX_DATE] in place
refine_time_based_query_min_only(query, min_date, max_date) ==
    IF ~is_time_based_query(query) THEN query
    ELSE IF ~Truthy(min_date) \/ ~Truthy(max_date) THEN query
    ELSE ReplaceDoubledQuotes(ReplaceToken(query, "[MIN_DATE]", min_date))

\* refine_time_based_query of src/app/services/query_generator.py
refine_time_based_query(query, min_date, max_date) ==
    IF ~is_time_based_query(query) THEN query
    ELSE IF ~Truthy(min_date) \/ ~Truthy(max_date) THEN query
    ELSE ReplaceDoubledQuotes(
            ReplaceToken(ReplaceToken(query, "[MIN_DATE]", min_date),
                         "[MAX_DATE]", max_date))

\* refine_time_based_query of src/query_generator.py: the dates come from
\* fetch_relevant_min_max_dates, and doubled quotes are left alone
refine_time_based_query_root(query, dates) ==
    IF ~is_time_based_query(query) THEN query
    ELSE IF ~Truthy(dates[1]) \/ ~Truthy(dates[2]) THEN query
    ELSE ReplaceToken(ReplaceToken(query, "[MIN_DATE]", dates[1]),
                      "[MAX_DATE]", dates[2])

-----------------------------------------------------------------------------
(* The batch refiner, src/app/services/time_based.py. *)

\* the query items a request is built from: the second one has no explanation
QueryItems ==
    { [query_id |-> "q1", query |-> <<"x", " ", "[MIN_DATE]">>, explanation |-> <<"y">>],
      [query_id |-> "q2", query |-> <<"y">>, explanation |-> NoneText] }

\* (min_date, max_date) pairs, the second with min_date after max_date
DatePairs == { <<"2024-01-01", "2024-12-31">>, <<"2024-12-31", "2024-01-01">> }
DbTypes == {"mysql", "postgres"}

\* result.content of a model call that returned
LLMContents ==
    { <<Fence, "sql", "\n", "x", " ", "\n", Fence, "\n", Fence, "text", " ", "y", Fence>>,
      <<" ", Fence, "sql", "y", Fence>>,
      <<Fence, "\n", "x", "\n", Fence>>,
      <<" ", "x", " ", "y", "\n">> }
\* str(e) of a model call that raised
LLMErrors == {"timeout", "quota exceeded"}

LLMOutcomes ==
    [ok : {TRUE}, content : LLMContents, error : {None}]
    \cup [ok : {FALSE}, content : {<<>>}, error : LLMErrors]

BatchesOfLen(n) == [1..n -> QueryItems]

\* a pydantic model, as the comment at line 92 says ("Convert Pydantic model to
\* dict"): its fields are read as attributes in the try block
QueryItemKind == "pydantic_model"

\* a faulty variant of InvokeInput that hands the two bounds over exchanged
InvokeInputSwapped(req, item) ==
    [original_query |-> item.query, original_explanation |-> item.explanation,
     min_date |-> req.max_date, max_date |-> req.min_date, db_type |-> req.db_type]

\* the keyword arguments of update_chain.invoke for one item
InvokeInput(req, item) ==
    [original_query |-> item.query, original_explanation |-> item.explanation,
     min_date |-> req.min_date, max_date |-> req.max_date, db_type |-> req.db_type]

\* the dict appended in the try block
SuccessEntry(item, content) ==
    LET pair == extract_sql_and_explanation(content)
    IN  [query_id |-> item.query_id,
         original_query |-> item.query,
         original_explanation |-> item.explanation,
         updated_query |-> pair[1],
         updated_explanation |-> pair[2],
         success |-> TRUE,
         error |-> None]

\* the dict the except block builds by subscripting the item
FailureEntry(item, msg) ==
    [query_id |-> item.query_id,
     original_query |-> item.query,
     updated_query |-> item.query,
     success |-> FALSE,
     error |-> msg]

\* one pass of the loop body: <<"append", entry>> or <<"raise", message>>
RefineOne(item, outcome) ==
    IF outcome.ok
    THEN <<"append", SuccessEntry(item, outcome.content)>>
    ELSE IF Subscriptable(QueryItemKind)
         THEN <<"append", FailureEntry(item, outcome.error)>>
         ELSE <<"raise", NotSubscriptableMsg(QueryItemKind)>>

\* a faulty variant of AppendEntry that inserts at the front of the list
AppendEntryAtFront(list, entry) == <<entry>> \o list

\* updated_queries.append(entry)
AppendEntry(list, entry) == Append(list, entry)

InitRefine ==
    /\ \E n \in 0..MaxBatch : \E qs \in BatchesOfLen(n) : \E d \in DatePairs :
       \E t \in DbTypes :
          query_request = [queries |-> qs, min_date |-> d[1], max_date |-> d[2],
                           db_type |-> t]
    /\ llm_reply \in [1..Len(query_request.queries) -> LLMOutcomes]
    /\ r_pc = "loop"
    /\ r_i = 1
    /\ updated_queries = <<>>
    /\ r_exc = None
    /\ llm_calls = <<>>
    /\ http_status = 0
    /\ su_pc = "ready"
    /\ su_result = NoResult
    /\ DraftOff /\ NlqOff /\ ValidateOff /\ PureOff

\* one iteration of `for query_item in query_request.queries`
RefineItem ==
    /\ r_pc = "loop"
    /\ r_i <= Len(query_request.queries)
    /\ LET item == query_request.queries[r_i]
           step == RefineOne(item, llm_reply[r_i])
       IN  /\ llm_calls' = Append(llm_calls, InvokeInput(query_request, item))
           /\ IF step[1] = "append"
              THEN /\ updated_queries' = AppendEntry(updated_queries, step[2])
                   /\ r_i' = r_i + 1
                   /\ UNCHANGED <<r_pc, r_exc, http_status>>
              ELSE \* the exception raised inside the except block leaves the
                   \* function; update_queries turns it into HTTP 500
                   /\ r_pc' = "raised"
                   /\ r_exc' = step[2]
                   /\ http_status' = 500
                   /\ UNCHANGED <<updated_queries, r_i>>
    /\ UNCHANGED <<query_request, llm_reply, su_pc, su_result>>
    /\ UNCHANGED <<draft_vars, nlq_vars, validate_vars, pure_vars>>

\* return {"updated_queries": updated_queries}
RefineReturn ==
    /\ r_pc = "loop"
    /\ r_i > Len(query_request.queries)
    /\ r_pc' = "returned"
    /\ http_status' = 200
    /\ UNCHANGED <<query_request, llm_reply, r_i, updated_queries, r_exc,
                   llm_calls, su_pc, su_result>>
    /\ UNCHANGED <<draft_vars, nlq_vars, validate_vars, pure_vars>>

\* update_time_based_queries is `async def`: called without await it returns a
\* coroutine object and runs none of its body
UnawaitedCallKind == "coroutine"

\* update_query_date_range for the one-element request
update_query_date_range ==
    /\ su_pc = "ready"
    /\ r_pc /= "off"
    /\ Len(query_request.queries) = 1
    /\ LET item == query_request.queries[1]
           step == RefineOne(item, llm_reply[1])
       IN  su_result' =
             IF Subscriptable(UnawaitedCallKind) /\ step[1] = "append"
             THEN step[2]
             ELSE FailureEntry(item,
                     IF Subscriptable(UnawaitedCallKind) THEN step[2]
                     ELSE NotSubscriptableMsg(UnawaitedCallKind))
    /\ su_pc' = "done"
    /\ UNCHANGED <<query_request, llm_reply, r_pc, r_i, updated_queries, r_exc,
                   llm_calls, http_status>>
    /\ UNCHANGED <<draft_vars, nlq_vars, validate_vars, pure_vars>>

NextRefine == RefineItem \/ RefineReturn \/ update_query_date_range

SpecRefine == InitRefine /\ [][NextRefine]_vars

-----------------------------------------------------------------------------
(* is_time_based_query applied to a query text, with the patterns of        *)
(* time_patterns tried in the order of the list or in another order.        *)

\* longest query text, in tokens
MaxQuery == 3

\* the tokens of a query text
QueryTokens ==
    {"x", " ", "\n", "BETWEEN", "and", "GROUP BY", "year", "(", ">", "2024-01-01",
     "[min_date]"}

QueryTexts == UNION {[1..n -> QueryTokens] : n \in 0..MaxQuery}

NPatterns == Len(time_patterns)

\* the list order moved round by k places, forwards or backwards
Rotation(k) == [n \in 1..NPatterns |-> ((n + k - 1) % NPatterns) + 1]
Reversed(order) == [n \in 1..Len(order) |-> order[Len(order) + 1 - n]]

\* the orders the loop is run in: the list's own is Rotation(0)
PatternOrders ==
    {Rotation(k) : k \in {0, 6, 12}} \cup {Reversed(Rotation(k)) : k \in {0, 6, 12}}

\* time_patterns with its entries in the given order
PatternsInOrder(order) == [n \in 1..Len(order) |-> time_patterns[order[n]]]

InitClassify ==
    /\ cl_query \in QueryTexts
    /\ cl_order \in PatternOrders
    /\ cl_pc = "call"
    /\ cl_result = FALSE
    /\ cl_tried = 0
    /\ RefineOff /\ DraftOff /\ NlqOff /\ ValidateOff /\ ExtractOff /\ SessionOff
    /\ UnitOff

\* the for loop of is_time_based_query: return True at the first pattern that
\* matches, False after the last one
Classify ==
    /\ cl_pc = "call"
    /\ LET hit == FirstMatch(PatternsInOrder(cl_order), cl_query)
       IN  /\ cl_result' = (hit /= 0)
           /\ cl_tried' = IF hit /= 0 THEN hit ELSE NPatterns
    /\ cl_pc' = "done"
    /\ UNCHANGED <<cl_query, cl_order>>
    /\ UNCHANGED <<refine_vars, draft_vars, nlq_vars, validate_vars, extract_vars,
                   session_vars, unit_vars>>

NextClassify == Classify

SpecClassify == InitClassify /\ [][NextClassify]_vars

-----------------------------------------------------------------------------
(* extract_sql_from_response applied to a text, and then to its own result. *)
(* The function is the same in src/app/services/query_generator.py,         *)
(* src/app/services/NL2SQL.py, src/app/services/time_based.py and           *)
(* src/query_generator.py.                                                  *)

\* most pieces a response text is put together from
MaxPieces == 4

\* the pieces of a response text: single tokens and whole fenced blocks
TextPieces ==
    { <<"x">>, <<" ">>, <<"\n">>, <<"sql">>, <<Tick>>, <<Fence>>,
      <<Fence, "sql", "\n", "y", " ", "\n", Fence>>,
      <<Fence, " ", "x", "\n", Fence>> }

\* the pieces of a text without a fence
PlainPieces == { <<"x">>, <<" ">>, <<"\n">>, <<"sql">>, <<Tick>>, <<Tick, Tick>> }

RECURSIVE Flatten(_)
Flatten(pieces) ==
    IF pieces = <<>> THEN <<>> ELSE Head(pieces) \o Flatten(Tail(pieces))

TextsOf(pieces, n) == { Flatten(ps) : ps \in UNION {[1..m -> pieces] : m \in 0..n} }

\* the text holds three backticks in a row somewhere
HasFence(s) == \E i \in 1..Len(Chars(s)) : FenceAt(Chars(s), i)

\* the sql-tagged fenced block that wraps X on its own lines
WrapSql(X) == <<Fence, "sql", "\n">> \o X \o <<"\n", Fence>>

InitExtract ==
    /\ x_text \in TextsOf(TextPieces, MaxPieces)
                  \cup { WrapSql(X) : X \in {Y \in TextsOf(PlainPieces, MaxPieces) : ~HasFence(Y)} }
    /\ x_pc = "call"
    /\ x_result = <<>>
    /\ x_again = <<>>
    /\ RefineOff /\ DraftOff /\ NlqOff /\ ValidateOff /\ ClassifyOff /\ SessionOff
    /\ UnitOff

\* extract_sql_from_response(response)
Extract ==
    /\ x_pc = "call"
    /\ x_result' = extract_sql_from_response(x_text)
    /\ x_pc' = "once"
    /\ UNCHANGED <<x_text, x_again>>
    /\ UNCHANGED <<refine_vars, draft_vars, nlq_vars, validate_vars, classify_vars,
                   session_vars, unit_vars>>

\* extract_sql_from_response applied to what it returned
ExtractAgain ==
    /\ x_pc = "once"
    /\ x_again' = extract_sql_from_response(x_result)
    /\ x_pc' = "twice"
    /\ UNCHANGED <<x_text, x_result>>
    /\ UNCHANGED <<refine_vars, draft_vars, nlq_vars, validate_vars, classify_vars,
                   session_vars, unit_vars>>

NextExtract == Extract \/ ExtractAgain

SpecExtract == InitExtract /\ [][NextExtract]_vars

-----------------------------------------------------------------------------
(* SQLQueryItem(...) applied to one set of field values.                    *)

\* relevance scores handed to the validator, in thousandths
RelevanceInputs == {0 - 500, 0 - 1, 0, 4, 504, 996, 1000, 1004, 1500}

ChartInputs ==
    {Bar, Line, Area, Pie, Donut, Radian, Scatter, Scatterplot, line_lowercase,
     Heatmap, NoneLabel}

InitValidate ==
    /\ v_raw \in [question : {<<"x">>}, query : {<<"x">>},
                  relevance : RelevanceInputs, is_time_based : BOOLEAN,
                  chart_type : ChartInputs]
    /\ v_pc = "call"
    /\ v_result = NoResult
    /\ RefineOff /\ DraftOff /\ NlqOff /\ PureOff

Validate ==
    /\ v_pc = "call"
    /\ v_result' = SQLQueryItem(v_raw)
    /\ v_pc' = "done"
    /\ UNCHANGED <<v_raw, refine_vars, draft_vars, nlq_vars, pure_vars>>

NextValidate == Validate

SpecValidate == InitValidate /\ [][NextValidate]_vars

-----------------------------------------------------------------------------
(* The draft generator: QueryGenerator.generate_queries of                  *)
(* src/app/services/query_generator.py ("app") and of the older            *)
(* src/query_generator.py ("root").                                         *)

PlainQuery == <<"x">>
BetweenQuery ==
    <<"x", " ", "BETWEEN", " ", "'", "[MIN_DATE]", "'", " ", "AND", " ",
      "'", "[MAX_DATE]", "'">>
YearQuotedQuery == <<"YEAR", "(", "x", ")", " ", "'", "'", "x", "'", "'">>
QuotedQuery == <<"x", " ", "'", "'", "x", "'", "'">>
LowerPlaceholderQuery == <<"x", " ", "[min_date]">>

\* the items the model's reply is made of
RawItems ==
    { [question |-> <<"x">>, query |-> PlainQuery, relevance |-> 900,
       is_time_based |-> FALSE, chart_type |-> Bar],
      [question |-> <<"x", " ", "[MIN_DATE]">>, query |-> BetweenQuery, relevance |-> 504,
       is_time_based |-> TRUE, chart_type |-> Line],
      [question |-> <<"x">>, query |-> YearQuotedQuery, relevance |-> 1000,
       is_time_based |-> TRUE, chart_type |-> Scatterplot],
      [question |-> <<"x">>, query |-> QuotedQuery, relevance |-> 0,
       is_time_based |-> TRUE, chart_type |-> Pie],
      [question |-> <<"x">>, query |-> BetweenQuery, relevance |-> 996,
       is_time_based |-> FALSE, chart_type |-> Donut],
      [question |-> <<"x">>, query |-> PlainQuery, relevance |-> 1500,
       is_time_based |-> FALSE, chart_type |-> Bar],
      [question |-> <<"x">>, query |-> PlainQuery, relevance |-> 0 - 1,
       is_time_based |-> FALSE, chart_type |-> Area],
      [question |-> <<"x">>, query |-> PlainQuery, relevance |-> 700,
       is_time_based |-> FALSE, chart_type |-> Scatter],
      [question |-> <<"x">>, query |-> LowerPlaceholderQuery, relevance |-> 1004,
       is_time_based |-> TRUE, chart_type |-> Heatmap] }

\* what draft_chain.invoke gives: the llm raises, the parser cannot read the
\* text, or the parser reads a list of items (which it then validates)
DraftReplies ==
    [kind : {"error"}, msg : {"timeout"}, queries : {<<>>}]
    \cup [kind : {"unparsable"}, msg : {"Invalid json output"}, queries : {<<>>}]
    \cup [kind : {"items"}, msg : {None},
          queries : UNION {[1..n -> RawItems] : n \in 0..MaxDraft}]

\* the min_max_dates lists generate_queries is called with
DateLists ==
    { <<>>,
      << <<"2024-01-01">> >>,
      << <<"2024-01-01">>, <<"2024-12-31">> >>,
      << <<>>, <<"2024-12-31">> >> }

\* what fetch_relevant_min_max_dates returns: its defaults or the database's
DbDates ==
    { << <<"2020-01-01">>, <<"2023-12-31">> >>,
      << <<"2024-01-01">>, <<"2024-12-31">> >> }

\* str.lower() of a dialect name
LowerDialect(db_type) ==
    CASE db_type = "MySQL" -> "mysql"
      [] db_type = "POSTGRES" -> "postgres"
      [] db_type = "SQLite" -> "sqlite"
      [] db_type = "Oracle" -> "oracle"
      [] OTHER -> db_type

\* the db_type values a generator is constructed with
DraftDbTypes == {"mysql", "POSTGRES", "SQLite", "Oracle"}

\* a faulty variant of sql_syntax_instruction whose default is the MySQL text
sql_syntax_instruction_mysql_default(db_type) ==
    CASE db_type = "mysql" -> "Write queries ONLY using syntax compatible with MySQL database."
      [] db_type = "postgres" -> "Write queries ONLY using syntax compatible with PostgreSQL database."
      [] db_type = "sqlite" -> "Write queries ONLY using syntax compatible with SQLite database."
      [] OTHER -> "Write queries ONLY using syntax compatible with MySQL database."

\* sql_syntax_instruction of QueryGenerator.__init__: the dict lookup with its
\* default, in both revisions
sql_syntax_instruction(db_type) ==
    CASE db_type = "mysql" -> "Write queries ONLY using syntax compatible with MySQL database."
      [] db_type = "postgres" -> "Write queries ONLY using syntax compatible with PostgreSQL database."
      [] db_type = "sqlite" -> "Write queries ONLY using syntax compatible with SQLite database."
      [] OTHER -> "Write queries using standard SQL syntax."

\* the input of draft_chain.invoke together with the partial variable of the
\* prompt
DraftInvokeInput(self) ==
    [schema |-> <<"y">>, role |-> <<"x">>, domain |-> <<"x">>,
     sql_syntax_instruction |-> self.sql_syntax_instruction]

\* the first item of the reply that SQLQueryItem rejects, 0 when none
FirstInvalid(queries) ==
    LET bad == {i \in 1..Len(queries) : SQLQueryItem(queries[i])[1] = "error"}
    IN  IF bad = {} THEN 0 ELSE SetMin(bad)

\* a faulty variant of DraftChainInvoke that drops the items SQLQueryItem
\* rejects and keeps the others
DraftChainInvokeSkipsInvalid(reply) ==
    IF reply.kind /= "items" THEN <<"error", reply.msg>>
    ELSE LET RECURSIVE valid(_)
             valid(qs) ==
                 IF qs = <<>> THEN <<>>
                 ELSE (IF SQLQueryItem(Head(qs))[1] = "ok"
                       THEN <<SQLQueryItem(Head(qs))[2]>> ELSE <<>>) \o valid(Tail(qs))
         IN  <<"ok", valid(reply.queries)>>

\* draft_chain.invoke(...): <<"ok", validated items>> or <<"error", str(e)>>
DraftChainInvoke(reply) ==
    IF reply.kind /= "items" THEN <<"error", reply.msg>>
    ELSE IF FirstInvalid(reply.queries) /= 0
         THEN <<"error", SQLQueryItem(reply.queries[FirstInvalid(reply.queries)])[2]>>
         ELSE <<"ok", [i \in 1..Len(reply.queries) |-> SQLQueryItem(reply.queries[i])[2]]>>

\* the chart_type of the item built in the except block
ErrorChartType(rev) == IF rev = "app" THEN Line ELSE line_lowercase

\* the except block: SQLQueryResponse(queries=[SQLQueryItem(...)]); the
\* constructor validates, and what it raises leaves generate_queries
ErrorResponse(rev, msg) ==
    LET built == SQLQueryItem([question |-> <<"Error generating queries">>,
                               query |-> <<"-- Error: ", msg>>,
                               relevance |-> 0,
                               is_time_based |-> FALSE,
                               chart_type |-> ErrorChartType(rev)])
    IN  IF built[1] = "ok" THEN <<"return", <<built[2]>> >>
        ELSE <<"raise", built[2]>>

\* a faulty variant of RefinedItemApp that substitutes whatever the flag says
RefinedItemAppIgnoresFlag(item, dates) ==
    LET min_date == IF Len(dates) = 2 THEN dates[1] ELSE NoneText
        max_date == IF Len(dates) = 2 THEN dates[2] ELSE NoneText
    IN  IF Truthy(min_date) /\ Truthy(max_date)
        THEN SQLQueryItem([question |-> refine_time_based_query(item.question, min_date, max_date),
                           query |-> refine_time_based_query(item.query, min_date, max_date),
                           relevance |-> item.relevance,
                           is_time_based |-> item.is_time_based,
                           chart_type |-> item.chart_type])
        ELSE <<"ok", item>>

\* the loop body of the app revision for one validated item
RefinedItemApp(item, dates) ==
    LET min_date == IF Len(dates) = 2 THEN dates[1] ELSE NoneText
        max_date == IF Len(dates) = 2 THEN dates[2] ELSE NoneText
    IN  IF item.is_time_based /\ Truthy(min_date) /\ Truthy(max_date)
        THEN SQLQueryItem([question |-> refine_time_based_query(item.question, min_date, max_date),
                           query |-> refine_time_based_query(item.query, min_date, max_date),
                           relevance |-> item.relevance,
                           is_time_based |-> TRUE,
                           chart_type |-> item.chart_type])
        ELSE <<"ok", item>>

\* the loop body of the root revision for one validated item
RefinedItemRoot(item, dates) ==
    IF item.is_time_based
    THEN SQLQueryItem([question |-> item.question,
                       query |-> refine_time_based_query_root(item.query, dates),
                       relevance |-> item.relevance,
                       is_time_based |-> TRUE,
                       chart_type |-> item.chart_type])
    ELSE <<"ok", item>>

\* generate_queries: <<"return", queries>> or <<"raise", message>>
generate_queries(rev, reply, dates, fetched) ==
    LET draft == DraftChainInvoke(reply)
    IN  IF draft[1] = "error" THEN ErrorResponse(rev, draft[2])
        ELSE LET items == draft[2]
                 refined == [i \in 1..Len(items) |->
                               IF rev = "app" THEN RefinedItemApp(items[i], dates)
                               ELSE RefinedItemRoot(items[i], fetched)]
                 bad == {i \in 1..Len(items) : refined[i][1] = "error"}
             IN  IF bad /= {} THEN ErrorResponse(rev, refined[SetMin(bad)][2])
                 ELSE <<"return", [i \in 1..Len(items) |-> refined[i][2]]>>

InitDraft ==
    /\ dg_rev \in {"app", "root"}
    /\ dg_db_type_arg \in DraftDbTypes
    /\ dg_self = NoResult
    /\ dg_llm_calls = <<>>
    /\ draft_reply \in DraftReplies
    /\ \/ dg_rev = "app" /\ min_max_dates \in DateLists /\ db_dates = <<>>
       \/ dg_rev = "root" /\ min_max_dates = <<>> /\ db_dates \in DbDates
    /\ dg_pc = "new"
    /\ dg_queries = <<>>
    /\ dg_exc = None
    /\ executor_result = NoList
    /\ RefineOff /\ NlqOff /\ ValidateOff /\ PureOff

\* QueryGenerator(schema=..., api_key=..., db_type=...): __init__
QueryGeneratorInit ==
    /\ dg_pc = "new"
    /\ dg_self' = [db_type |-> LowerDialect(dg_db_type_arg),
                   sql_syntax_instruction |->
                       sql_syntax_instruction(LowerDialect(dg_db_type_arg))]
    /\ dg_pc' = "call"
    /\ UNCHANGED <<dg_rev, dg_db_type_arg, dg_llm_calls, draft_reply, min_max_dates,
                   db_dates, dg_queries, dg_exc, executor_result>>
    /\ UNCHANGED <<refine_vars, nlq_vars, validate_vars, pure_vars>>

GenerateReturns ==
    /\ dg_pc = "call"
    /\ LET out == generate_queries(dg_rev, draft_reply, min_max_dates, db_dates)
       IN  /\ out[1] = "return"
           /\ dg_queries' = out[2]
    /\ dg_llm_calls' = Append(dg_llm_calls, DraftInvokeInput(dg_self))
    /\ dg_pc' = "returned"
    /\ UNCHANGED <<dg_rev, dg_db_type_arg, dg_self, draft_reply, min_max_dates,
                   db_dates, dg_exc, executor_result>>
    /\ UNCHANGED <<refine_vars, nlq_vars, validate_vars, pure_vars>>

GenerateRaises ==
    /\ dg_pc = "call"
    /\ LET out == generate_queries(dg_rev, draft_reply, min_max_dates, db_dates)
       IN  /\ out[1] = "raise"
           /\ dg_exc' = out[2]
    /\ dg_llm_calls' = Append(dg_llm_calls, DraftInvokeInput(dg_self))
    /\ dg_pc' = "raised"
    /\ UNCHANGED <<dg_rev, dg_db_type_arg, dg_self, draft_reply, min_max_dates,
                   db_dates, dg_queries, executor_result>>
    /\ UNCHANGED <<refine_vars, nlq_vars, validate_vars, pure_vars>>

\* a faulty variant of QueriesList that drops an item equal to an earlier one
QueriesListDeduplicated(queries) ==
    LET keep == {i \in 1..Len(queries) : \A j \in 1..(i - 1) : queries[j] /= queries[i]}
        row(item) == [query |-> item.query, explanation |-> item.question,
                      relevance |-> item.relevance,
                      is_time_based |-> item.is_time_based,
                      chart_type |-> item.chart_type]
        RECURSIVE from(_)
        from(i) == IF i > Len(queries) THEN <<>>
                   ELSE (IF i \in keep THEN <<row(queries[i])>> ELSE <<>>) \o from(i + 1)
    IN  from(1)

\* the list comprehension of get_queries_for_executor: one dict per item of
\* response.queries, in order, question renamed to explanation
QueriesList(queries) ==
    [i \in 1..Len(queries) |->
        [query |-> queries[i].query, explanation |-> queries[i].question,
         relevance |-> queries[i].relevance,
         is_time_based |-> queries[i].is_time_based,
         chart_type |-> queries[i].chart_type]]

\* get_queries_for_executor: it calls generate_queries and reshapes what that
\* returned; what generate_queries raises leaves it too
get_queries_for_executor ==
    /\ dg_pc = "call"
    /\ LET out == generate_queries(dg_rev, draft_reply, min_max_dates, db_dates)
       IN  IF out[1] = "return"
           THEN /\ dg_queries' = out[2]
                /\ executor_result' = [returned |-> TRUE,
                                       queries_list |-> QueriesList(out[2])]
                /\ dg_pc' = "returned"
                /\ UNCHANGED dg_exc
           ELSE /\ dg_exc' = out[2]
                /\ dg_pc' = "raised"
                /\ UNCHANGED <<dg_queries, executor_result>>
    /\ dg_llm_calls' = Append(dg_llm_calls, DraftInvokeInput(dg_self))
    /\ UNCHANGED <<dg_rev, dg_db_type_arg, dg_self, draft_reply, min_max_dates,
                   db_dates>>
    /\ UNCHANGED <<refine_vars, nlq_vars, validate_vars, pure_vars>>

NextDraft ==
    QueryGeneratorInit \/ GenerateReturns \/ GenerateRaises \/ get_queries_for_executor

SpecDraft == InitDraft /\ [][NextDraft]_vars

-----------------------------------------------------------------------------
(* The NL-to-SQL generator, src/app/services/NL2SQL.py, and its request    *)
(* handler, src/app/api/nl_to_sql.py.                                       *)

\* str.lower() of one character
LowerChar(c) ==
    CASE c = "S" -> "s" [] c = "C" -> "c" [] c = "A" -> "a" [] c = "T" -> "t"
      [] c = "E" -> "e" [] c = "R" -> "r" [] c = "P" -> "p" [] c = "L" -> "l"
      [] c = "O" -> "o" [] c = "B" -> "b" [] c = "N" -> "n" [] c = "D" -> "d"
      [] c = "I" -> "i" [] c = "H" -> "h" [] c = "M" -> "m" [] c = "U" -> "u"
      [] OTHER -> c

\* str.lower() of a label
Lower(label) == [i \in 1..Len(label) |-> LowerChar(label[i])]

scatterplot_lowercase == <<"s", "c", "a", "t", "t", "e", "r", "p", "l", "o", "t">>
scatter_lowercase == <<"s", "c", "a", "t", "t", "e", "r">>
SCATTERPLOT_uppercase == <<"S", "C", "A", "T", "T", "E", "R", "P", "L", "O", "T">>

\* NLQResponse(sql_query=..., explanation=..., chart_type=...): three strings
\* held as given
NLQResponse(sql_query, explanation, chart_type) ==
    [sql_query |-> sql_query, explanation |-> explanation, chart_type |-> chart_type]

\* get_sql_syntax_instruction: the dict lookup with its default
get_sql_syntax_instruction(db_type) ==
    LET d == LowerDialect(db_type)
    IN  CASE d = "mysql" -> "Write queries ONLY using syntax compatible with MySQL database."
          [] d = "postgres" -> "Write queries ONLY using syntax compatible with PostgreSQL database."
          [] OTHER -> "Write queries using standard SQL syntax."

\* the dialects of a request; None is a missing (non-string) db_type
NlqDbTypes == {"mysql", "POSTGRES", "sqlite", "oracle", None}

\* the inputs of the query_chain.invoke calls one convert_nlq_to_sql makes,
\* with the partial variables of the prompt: none when building the prompt
\* raised
NlqInvokeInputs(request) ==
    IF request.db_type = None THEN <<>>
    ELSE << [db_schema |-> request.db_schema, nl_query |-> request.nl_query,
             db_type |-> request.db_type,
             sql_syntax_instructions |-> get_sql_syntax_instruction(request.db_type)] >>

\* the sql_query texts of the model's structured reply
NlqSqlTexts ==
    { <<Fence, "sql", "\n", "x", "\n", Fence>>,
      <<Fence, " ", "x", " ", Fence, " ", Fence, "sql", "y", Fence>>,
      <<" ", "x", " ">> }

\* str.upper() of one character of "scatterplot"
UpperChar(c) ==
    CASE c = "s" -> "S" [] c = "c" -> "C" [] c = "a" -> "A" [] c = "t" -> "T"
      [] c = "e" -> "E" [] c = "r" -> "R" [] c = "p" -> "P" [] c = "l" -> "L"
      [] c = "o" -> "O"
      [] OTHER -> c

\* every way of writing the lower-case label in upper and lower case letters
Casings(label) ==
    { [i \in 1..Len(label) |-> IF up[i] THEN UpperChar(label[i]) ELSE label[i]] :
        up \in [1..Len(label) -> BOOLEAN] }

\* labels close to "scatterplot" that are not a casing of it
Scatterplots == <<"S", "c", "a", "t", "t", "e", "r", "p", "l", "o", "t", "s">>
scatter_plot_two_words == <<"s", "c", "a", "t", "t", "e", "r", " ", "p", "l", "o", "t">>

\* the chart_type values of the model's structured reply
NlqChartTypes ==
    {Bar, Scatter, scatter_lowercase, Scatterplots, scatter_plot_two_words, NoneLabel}
        \cup Casings(scatterplot_lowercase)

\* what query_chain.invoke gives: the llm raises, the parser rejects the
\* text, or the parser returns an NLQResponse
NlqReplies ==
    [kind : {"error"}, msg : {"timeout", "quota exceeded"}, sql_query : {<<>>},
     explanation : {<<>>}, chart_type : {<<>>}]
    \cup [kind : {"unparsable"}, msg : {"Failed to parse NLQResponse"}, sql_query : {<<>>},
          explanation : {<<>>}, chart_type : {<<>>}]
    \cup [kind : {"parsed"}, msg : {None}, sql_query : NlqSqlTexts,
          explanation : {<<"y">>}, chart_type : NlqChartTypes]

\* the except block of convert_nlq_to_sql
NlqErrorResponse(msg) ==
    NLQResponse(<<"-- Error: ", msg>>,
                <<"Error generating SQL query from natural language.">>,
                NoneLabel)

\* what the try block raises, None when it runs through: db_type.lower() on a
\* value that is no string, then the chain
NlqFailure(request, reply) ==
    IF request.db_type = None THEN "'NoneType' object has no attribute 'lower'"
    ELSE IF reply.kind /= "parsed" THEN reply.msg
    ELSE None

\* a faulty variant of convert_nlq_to_sql that builds the prompt (and so calls
\* get_sql_syntax_instruction) before entering the try block
convert_nlq_to_sql_prompt_outside_try(request, reply) ==
    IF request.db_type = None THEN <<"raise", "'NoneType' object has no attribute 'lower'">>
    ELSE IF reply.kind /= "parsed" THEN <<"return", NlqErrorResponse(reply.msg)>>
    ELSE <<"return", NLQResponse(extract_sql_from_response(reply.sql_query),
                                 reply.explanation, reply.chart_type)>>

\* convert_nlq_to_sql: <<"return", NLQResponse>> or <<"raise", message>>
convert_nlq_to_sql(request, reply) ==
    IF NlqFailure(request, reply) /= None
    THEN <<"return", NlqErrorResponse(NlqFailure(request, reply))>>
    ELSE <<"return", NLQResponse(extract_sql_from_response(reply.sql_query),
                                 reply.explanation, reply.chart_type)>>

\* a faulty variant of normalize_chart_type that renames every label starting
\* with "scatter", whatever follows
normalize_chart_type_prefix(chart_type) ==
    IF Len(chart_type) >= 7 /\ Lower(SubSeq(chart_type, 1, 7)) = scatter_lowercase
    THEN scatter_lowercase ELSE chart_type

\* a faulty variant of normalize_chart_type that compares without lower()
normalize_chart_type_case_sensitive(chart_type) ==
    IF chart_type = scatterplot_lowercase THEN scatter_lowercase ELSE chart_type

\* the handler's alias: result.chart_type.lower() == 'scatterplot' gives "scatter"
normalize_chart_type(chart_type) ==
    IF Lower(chart_type) = scatterplot_lowercase THEN scatter_lowercase ELSE chart_type

InitNlq ==
    /\ nlq_request \in [nl_query : {<<"x">>}, db_schema : {<<"y">>}, db_type : NlqDbTypes]
    /\ nlq_reply \in NlqReplies
    /\ nlq_llm_calls = <<>>
    /\ nlq_pc = "call"
    /\ nlq_result = NoResult
    /\ nlq_exc = None
    /\ nlq_response = NoResult
    /\ nlq_status = 0
    /\ RefineOff /\ DraftOff /\ ValidateOff /\ PureOff

\* sql_generator.convert_nlq_to_sql(...) inside the handler's try block
NlqConvert ==
    /\ nlq_pc = "call"
    /\ LET out == convert_nlq_to_sql(nlq_request, nlq_reply)
       IN  IF out[1] = "return"
           THEN nlq_result' = out[2] /\ UNCHANGED nlq_exc
           ELSE nlq_exc' = out[2] /\ UNCHANGED nlq_result
    /\ nlq_llm_calls' = nlq_llm_calls \o NlqInvokeInputs(nlq_request)
    /\ nlq_pc' = "converted"
    /\ UNCHANGED <<nlq_request, nlq_reply, nlq_response, nlq_status>>
    /\ UNCHANGED <<refine_vars, draft_vars, validate_vars, pure_vars>>

\* the rest of the handler: the alias and `return result`, or HTTP 500 for an
\* exception
NlqRespond ==
    /\ nlq_pc = "converted"
    /\ IF nlq_exc = None
       THEN /\ nlq_response' =
                 [nlq_result EXCEPT !.chart_type = normalize_chart_type(nlq_result.chart_type)]
            /\ nlq_status' = 200
       ELSE /\ nlq_status' = 500
            /\ UNCHANGED nlq_response
    /\ nlq_pc' = "responded"
    /\ UNCHANGED <<nlq_request, nlq_reply, nlq_llm_calls, nlq_result, nlq_exc>>
    /\ UNCHANGED <<refine_vars, draft_vars, validate_vars, pure_vars>>

NextNlq == NlqConvert \/ NlqRespond

SpecNlq == InitNlq /\ [][NextNlq]_vars

-----------------------------------------------------------------------------
(* One process serving calls one after the other.  Each call builds its    *)
(* own llm, prompt and generator objects; the one object that outlives a    *)
(* call is the list behind the default `min_max_dates: List[str] = []` of   *)
(* generate_queries, which every call that omits the argument receives.     *)

\* most calls served by the process
MaxCalls == 3

\* the min_max_dates argument of a call: left out, or given with a value
Omitted == [given |-> FALSE, value |-> <<>>]
Given(dates) == [given |-> TRUE, value |-> dates]

\* the whole of update_time_based_queries for a request and the model's
\* replies: <<"return", updated_queries>> or <<"raise", message>>
RefineBatch(req, replies) ==
    LET n == Len(req.queries)
        steps == [i \in 1..n |-> RefineOne(req.queries[i], replies[i])]
        raised == {i \in 1..n : steps[i][1] = "raise"}
    IN  IF raised = {} THEN <<"return", [i \in 1..n |-> steps[i][2]]>>
        ELSE <<"raise", steps[SetMin(raised)][2]>>

\* the handler of /convert_nl_to_sql around convert_nlq_to_sql
NlqHandler(request, reply) ==
    LET out == convert_nlq_to_sql(request, reply)
    IN  IF out[1] = "return"
        THEN <<"return", [out[2] EXCEPT !.chart_type = normalize_chart_type(out[2].chart_type)]>>
        ELSE out

\* a faulty variant of DefaultsAfterGenerate in which a call without dates
\* fills the list it was given with a date range
DefaultsAfterGenerateFilled(defaults, dates) ==
    IF ~dates.given /\ defaults = <<>>
    THEN << <<"2024-01-01">>, <<"2024-12-31">> >>
    ELSE defaults

\* the default list after one generate_queries: the body only reads
\* min_max_dates (len, [0], [1]), so the object is as it was
DefaultsAfterGenerate(defaults, dates) == defaults

\* the calls the process is asked to serve
SessionDraftReplies ==
    { [kind |-> "error", msg |-> "timeout", queries |-> <<>>],
      [kind |-> "items", msg |-> None,
       queries |-> << [question |-> <<"x", " ", "[MIN_DATE]">>, query |-> BetweenQuery,
                       relevance |-> 504, is_time_based |-> TRUE, chart_type |-> Line] >>] }
SessionDateArgs ==
    { Omitted, Given(<<>>), Given(<< <<"2020-01-01">>, <<"2023-12-31">> >>) }
SessionRefineRequests ==
    [queries : BatchesOfLen(1), min_date : {"2024-01-01"}, max_date : {"2024-12-31"},
     db_type : {"mysql"}]
SessionRefineReplies ==
    { << [ok |-> TRUE, content |-> <<" ", Fence, "sql", "y", Fence>>, error |-> None] >>,
      << [ok |-> FALSE, content |-> <<>>, error |-> "timeout"] >> }
SessionNlqReplies ==
    { [kind |-> "error", msg |-> "timeout", sql_query |-> <<>>, explanation |-> <<>>,
       chart_type |-> <<>>],
      [kind |-> "parsed", msg |-> None, sql_query |-> <<Fence, "sql", "\n", "x", "\n", Fence>>,
       explanation |-> <<"y">>, chart_type |-> Scatterplot] }

InitSession ==
    /\ s_pc = "serving"
    /\ s_defaults = <<>>
    /\ s_history = <<>>
    /\ RefineOff /\ DraftOff /\ NlqOff /\ ValidateOff /\ ExtractOff /\ ClassifyOff
    /\ UnitOff

\* QueryGenerator(...).generate_queries(role, domain[, min_max_dates])
ServeDraft ==
    /\ s_pc = "serving"
    /\ Len(s_history) < MaxCalls
    /\ \E db_type \in {"mysql", "Oracle"} : \E reply \in SessionDraftReplies :
       \E dates \in SessionDateArgs :
          LET min_max == IF dates.given THEN dates.value ELSE s_defaults
          IN  /\ s_history' = Append(s_history,
                    [call |-> "generate_queries",
                     args |-> [db_type |-> db_type, min_max_dates |-> dates],
                     reply |-> reply,
                     result |-> generate_queries("app", reply, min_max, <<>>)])
              /\ s_defaults' = DefaultsAfterGenerate(s_defaults, dates)
    /\ UNCHANGED s_pc
    /\ UNCHANGED <<refine_vars, draft_vars, nlq_vars, validate_vars, extract_vars,
                   classify_vars, unit_vars>>

\* update_time_based_queries(api_key, query_request)
ServeRefine ==
    /\ s_pc = "serving"
    /\ Len(s_history) < MaxCalls
    /\ \E req \in SessionRefineRequests : \E replies \in SessionRefineReplies :
          s_history' = Append(s_history,
              [call |-> "update_time_based_queries", args |-> req, reply |-> replies,
               result |-> RefineBatch(req, replies)])
    /\ UNCHANGED <<s_pc, s_defaults>>
    /\ UNCHANGED <<refine_vars, draft_vars, nlq_vars, validate_vars, extract_vars,
                   classify_vars, unit_vars>>

\* the /convert_nl_to_sql handler
ServeNlq ==
    /\ s_pc = "serving"
    /\ Len(s_history) < MaxCalls
    /\ \E reply \in SessionNlqReplies :
          LET request == [nl_query |-> <<"x">>, db_schema |-> <<"y">>, db_type |-> "mysql"]
          IN  s_history' = Append(s_history,
                  [call |-> "convert_nlq_to_sql", args |-> request, reply |-> reply,
                   result |-> NlqHandler(request, reply)])
    /\ UNCHANGED <<s_pc, s_defaults>>
    /\ UNCHANGED <<refine_vars, draft_vars, nlq_vars, validate_vars, extract_vars,
                   classify_vars, unit_vars>>

NextSession == ServeDraft \/ ServeRefine \/ ServeNlq

SpecSession == InitSession /\ [][NextSession]_vars

-----------------------------------------------------------------------------
(* Properties of the batch refiner and the single-query updater, checked   *)
(* under SpecRefine.                                                        *)

RefineEnded == r_pc \in {"returned", "raised"}
NQueries == Len(query_request.queries)

\* C1: for every batch and every subset of items whose model call raises, the
\* call returns normally, every item is attempted, and the returned list has
\* exactly one entry per input item: a failing item never aborts the batch.
C1_FailureNeverAbortsBatch ==
    RefineEnded =>
        /\ r_pc = "returned"
        /\ Len(llm_calls) = NQueries
        /\ Len(updated_queries) = NQueries

\* C2: every item whose model call was made has an entry; for a call that
\* raised the entry has success = false, error = the failure message and
\* updated_query = the item's original query; for a call that returned it
\* has success = true and no error.
C2_EntryPerOutcome ==
    \A i \in 1..Len(llm_calls) :
        /\ i <= Len(updated_queries)
        /\ LET e == updated_queries[i]
               item == query_request.queries[i]
           IN  IF llm_reply[i].ok
               THEN e.success = TRUE /\ e.error = None
               ELSE /\ e.success = FALSE
                    /\ e.error = llm_reply[i].error
                    /\ e.error /= None
                    /\ e.updated_query = item.query

C5_SingleUpdaterMatchesBatch ==
    su_pc = "done" =>
        LET item == query_request.queries[1]
        IN  /\ IF llm_reply[1].ok
               THEN /\ su_result.success = TRUE
                    /\ su_result.updated_query
                         = extract_sql_and_explanation(llm_reply[1].content)[1]
               ELSE /\ su_result.success = FALSE
                    /\ su_result.updated_query = item.query
            /\ r_pc = "returned" => su_result = updated_queries[1]

-----------------------------------------------------------------------------
(* Properties of the draft generator, checked under SpecDraft, and of the  *)
(* SQLQueryItem validators, checked under SpecValidate.                     *)

\* the model call, the parsing or the validation of the reply failed
DraftFailed == DraftChainInvoke(draft_reply)[1] = "error"

\* C6: when the model call or the parsing/validation of its reply fails,
\* generate_queries does not raise: it returns exactly one item whose query
\* is "-- Error: <message>", with relevance 0.0, is_time_based false and a
\* chart_type that passes SQLQueryItem validation.
C6_FailureBecomesSentinel ==
    (dg_pc \in {"returned", "raised"} /\ DraftFailed) =>
        /\ dg_pc = "returned"
        /\ Len(dg_queries) = 1
        /\ dg_queries[1].query = <<"-- Error: ", DraftChainInvoke(draft_reply)[2]>>
        /\ dg_queries[1].relevance = 0
        /\ dg_queries[1].is_time_based = FALSE
        /\ chart_type_must_be_valid(dg_queries[1].chart_type)

\* the reply holds an item whose relevance lies outside [0, 1]
ReplyHasRelevanceOutOfRange ==
    /\ draft_reply.kind = "items"
    /\ \E i \in 1..Len(draft_reply.queries) :
          draft_reply.queries[i].relevance < 0 \/ draft_reply.queries[i].relevance > 1000

\* the batch is the one-item error sentinel
IsSentinel(queries) ==
    /\ Len(queries) = 1
    /\ queries[1].query[1] = "-- Error: "
    /\ queries[1].relevance = 0

\* C8: a relevance outside [0, 1] supplied by the model is rejected and never
\* clamped: no item of a returned batch has relevance below 0 or above 1, and
\* a reply holding such a value yields the error sentinel, not its items.
C8_RelevanceRejectedNotClamped ==
    dg_pc = "returned" =>
        /\ \A i \in 1..Len(dg_queries) :
              0 <= dg_queries[i].relevance /\ dg_queries[i].relevance <= 1000
        /\ ReplyHasRelevanceOutOfRange => IsSentinel(dg_queries)

\* a two-item reply whose second relevance is 1.5 came back as the sentinel
C8_Witness ==
    /\ dg_pc = "returned"
    /\ draft_reply.kind = "items"
    /\ Len(draft_reply.queries) = 2
    /\ draft_reply.queries[1].relevance = 900
    /\ draft_reply.queries[2].relevance = 1500
    /\ IsSentinel(dg_queries)

\* C9: SQLQueryItem validation accepts each of Bar, Line, Area, Pie, Donut and
\* Scatter unchanged, and rejects every chart_type outside the recognized set.
C9_NamedChartTypesAccepted ==
    (v_pc = "done" /\ relevance_in_range(v_raw.relevance)) =>
        /\ v_raw.chart_type \in prompt_chart_types =>
              v_result[1] = "ok" /\ v_result[2].chart_type = v_raw.chart_type
        /\ v_raw.chart_type \notin (prompt_chart_types \cup valid_chart_types) =>
              v_result[1] = "error"

-----------------------------------------------------------------------------
(* Properties of the NL-to-SQL generator and its handler, checked under    *)
(* SpecNlq.                                                                 *)

\* the call fails: provider error, unparsable or invalid reply, or a db_type
\* that is no string
NlqFailed == nlq_reply.kind /= "parsed" \/ nlq_request.db_type = None

\* C7: on any failure convert_nlq_to_sql returns, without raising, the result
\* sql = "-- Error: <message>", the fixed apology explanation and chart_type
\* "None".
C7_NlqFailureIsDegradedResult ==
    nlq_pc \in {"converted", "responded"} =>
        /\ nlq_exc = None
        /\ nlq_result /= NoResult
        /\ NlqFailed =>
            /\ Len(nlq_result.sql_query) = 2
            /\ nlq_result.sql_query[1] = "-- Error: "
            /\ nlq_result.sql_query[2] =
                  (IF nlq_request.db_type = None
                   THEN "'NoneType' object has no attribute 'lower'"
                   ELSE nlq_reply.msg)
            /\ nlq_result.explanation = <<"Error generating SQL query from natural language.">>
            /\ nlq_result.chart_type = NoneLabel

\* a call with a missing db_type whose model reply was fine came back degraded
C7_Witness ==
    /\ nlq_pc = "converted"
    /\ nlq_request.db_type = None
    /\ nlq_reply.kind = "parsed"
    /\ nlq_result.sql_query[1] = "-- Error: "
    /\ nlq_result.chart_type = NoneLabel

\* the model call went through and the model chose the label "Scatterplot"
ModelSaidScatterplot ==
    /\ nlq_pc = "responded"
    /\ ~NlqFailed
    /\ nlq_reply.chart_type = Scatterplot

\* C10 as claimed: a model-returned chart_type "Scatterplot" reaches the
\* caller as "Scatter".
C10_ScatterplotBecomesCapitalScatter ==
    ModelSaidScatterplot =>
        nlq_status = 200 /\ nlq_response.chart_type = Scatter

\* C10 as amended: a model-returned chart_type "Scatterplot" reaches the
\* caller as the lower-case label "scatter".
C10_ScatterplotBecomesLowercaseScatter ==
    ModelSaidScatterplot =>
        nlq_status = 200 /\ nlq_response.chart_type = <<"s", "c", "a", "t", "t", "e", "r">>

\* the handler answered a "Scatterplot" reply with "scatter"
C10_Witness ==
    /\ ModelSaidScatterplot
    /\ nlq_result.chart_type = Scatterplot
    /\ nlq_response.chart_type = scatter_lowercase

\* the chart_type the service hands to the handler: the model's, or "None"
\* from the degraded result
ServiceChartType == IF NlqFailed THEN NoneLabel ELSE nlq_reply.chart_type

\* the label is "scatterplot" up to the case of its letters
IsCasingOfScatterplot(label) ==
    /\ Len(label) = 11
    /\ \A i \in 1..11 :
          label[i] \in {scatterplot_lowercase[i], SCATTERPLOT_uppercase[i]}

\* C11: for every letter-casing of a model-returned chart_type "scatterplot"
\* the response handed to the caller carries the label "scatter"; every other
\* chart_type, the degraded "None" included, is passed through unchanged, and
\* so are the sql_query and the explanation.
C11_EveryCasingBecomesScatter ==
    nlq_pc = "responded" =>
        /\ nlq_status = 200
        /\ nlq_response.chart_type =
              (IF IsCasingOfScatterplot(ServiceChartType) THEN scatter_lowercase
               ELSE ServiceChartType)
        /\ nlq_response.sql_query = nlq_result.sql_query
        /\ nlq_response.explanation = nlq_result.explanation

\* the handler answered the mixed-case reply "sCaTtErPlOt" with "scatter"
C11_Witness ==
    /\ nlq_pc = "responded"
    /\ ~NlqFailed
    /\ nlq_reply.chart_type = <<"s", "C", "a", "T", "t", "E", "r", "P", "l", "O", "t">>
    /\ nlq_response.chart_type = scatter_lowercase

-----------------------------------------------------------------------------
(* The three generators side by side: the refiner, the draft generator and *)
(* the NL-to-SQL generator, each started by its own request.                *)

InitPipeline == InitRefine \/ InitDraft \/ InitNlq

NextPipeline == NextRefine \/ NextDraft \/ NextNlq

SpecPipeline == InitPipeline /\ [][NextPipeline]_vars

-----------------------------------------------------------------------------
(* Properties of the dialect handling.                                      *)

RecognizedDialects == {"mysql", "postgres", "sqlite"}
GenericInstruction == "Write queries using standard SQL syntax."

\* the draft generator was constructed with a dialect outside the recognized set
UnrecognizedDraftDialect == LowerDialect(dg_db_type_arg) \notin RecognizedDialects

\* C12: constructed with an unrecognized dialect such as "Oracle", the draft
\* generator does not fail because of the dialect: the prompt carries the
\* generic standard-SQL instruction, every call of generate_queries of
\* src/app/services/query_generator.py returns a response, and whenever the
\* older revision raises, the model's reply (not the dialect) is what failed.
C12_UnrecognizedDialectStillReturns ==
    UnrecognizedDraftDialect =>
        /\ dg_pc \in {"call", "returned", "raised"} =>
              dg_self.sql_syntax_instruction = GenericInstruction
        /\ (dg_pc = "call" /\ dg_rev = "app") =>
              generate_queries(dg_rev, draft_reply, min_max_dates, db_dates)[1] = "return"
        /\ dg_pc = "returned" =>
              /\ Len(dg_llm_calls) = 1
              /\ dg_llm_calls[1].sql_syntax_instruction = GenericInstruction
        /\ dg_pc = "raised" => (dg_rev = "root" /\ DraftFailed)

\* a generator built for "Oracle" returned the model's two items
C12_Witness ==
    /\ dg_rev = "app"
    /\ dg_db_type_arg = "Oracle"
    /\ dg_self /= NoResult
    /\ dg_self.db_type = "oracle"
    /\ dg_pc = "returned"
    /\ draft_reply.kind = "items"
    /\ Len(dg_queries) = 2
    /\ dg_llm_calls[1].sql_syntax_instruction = GenericInstruction

\* the dialect an instruction text names
DialectOfInstruction(text) ==
    CASE text = "Write queries ONLY using syntax compatible with MySQL database." -> "mysql"
      [] text = "Write queries ONLY using syntax compatible with PostgreSQL database." -> "postgres"
      [] text = "Write queries ONLY using syntax compatible with SQLite database." -> "sqlite"
      [] text = GenericInstruction -> "standard"
      [] OTHER -> "unknown"

\* the instruction the claim expects for a db_type
ExpectedInstructionDialect(db_type) ==
    IF LowerDialect(db_type) \in RecognizedDialects THEN LowerDialect(db_type)
    ELSE "standard"

\* C13: in the draft generator and in the NL-to-SQL generator alike, the
\* instruction sent to the model is the one of the request's dialect for
\* mysql, postgres and sqlite in any letter case, and the generic standard-SQL
\* instruction only for a dialect outside that set.
C13_EachDialectOwnInstruction ==
    /\ \A i \in 1..Len(dg_llm_calls) :
          DialectOfInstruction(dg_llm_calls[i].sql_syntax_instruction)
              = ExpectedInstructionDialect(dg_db_type_arg)
    /\ \A i \in 1..Len(nlq_llm_calls) :
          DialectOfInstruction(nlq_llm_calls[i].sql_syntax_instructions)
              = ExpectedInstructionDialect(nlq_llm_calls[i].db_type)

-----------------------------------------------------------------------------
(* Properties of extract_sql_from_response, checked under SpecExtract.      *)

\* the text is an sql-tagged fenced block wrapping a fence-free X on its own
\* lines
IsWrappedSql(s) ==
    /\ Len(s) >= 5
    /\ SubSeq(s, 1, 3) = <<Fence, "sql", "\n">>
    /\ SubSeq(s, Len(s) - 1, Len(s)) = <<"\n", Fence>>
    /\ ~HasFence(SubSeq(s, 4, Len(s) - 2))

\* X of a wrapped text
WrappedX(s) == SubSeq(s, 4, Len(s) - 2)

\* X with its leading and trailing whitespace removed
Trimmed(X) ==
    LET first == {i \in 1..Len(X) : \A k \in 1..i : IsSpace(X[k])}
        last == {i \in 1..Len(X) : \A k \in i..Len(X) : IsSpace(X[k])}
        a == IF first = {} THEN 1 ELSE SetMax(first) + 1
        b == IF last = {} THEN Len(X) ELSE SetMin(last) - 1
    IN  IF a > b THEN <<>> ELSE SubSeq(X, a, b)

\* C14: for every X without a closing fence, the extractor applied to the
\* sql-tagged fenced block wrapping X on its own lines returns X with leading
\* and trailing whitespace removed.
C14_FencedSqlReturnsTrimmedInterior ==
    (x_pc \in {"once", "twice"} /\ IsWrappedSql(x_text)) =>
        x_result = Trimmed(WrappedX(x_text))

\* a wrapped X with blanks at both ends and backticks inside came back trimmed
C14_Witness ==
    /\ x_pc = "once"
    /\ x_text = WrapSql(<<" ", "x", Tick, Tick, "\n">>)
    /\ x_result = <<"x", Tick, Tick>>

\* C15: the extractor is idempotent on every input, fenced, partially fenced,
\* nested or unfenced: applied to its own result it returns that result; and
\* for an input without a fence the result is the trimmed input.
C15_ExtractIsIdempotent ==
    x_pc = "twice" =>
        /\ x_again = x_result
        /\ ~HasFence(x_text) => x_result = Trimmed(x_text)

\* a text with two untagged blocks and a stray fence was extracted twice
C15_Witness ==
    /\ x_pc = "twice"
    /\ x_text = <<Fence, " ", "x", "\n", Fence, " ", Fence, Fence, " ", "x", "\n", Fence>>
    /\ x_result = <<"x">>
    /\ x_again = <<"x">>

\* the positions of Chars(s) at which a fence followed by "sql" opens a block
\* that a later fence closes
SqlBlockOpenings(s) ==
    LET cs == Chars(s)
    IN  {i \in 1..Len(cs) :
            /\ FenceAt(cs, i)
            /\ i + 3 <= Len(cs) /\ cs[i + 3] = "sql"
            /\ \E j \in (i + 4)..Len(cs) : FenceAt(cs, j)}

\* the positions of Chars(s) at which a fence opens a block that a later fence
\* closes
BlockOpenings(s) ==
    LET cs == Chars(s)
    IN  {i \in 1..Len(cs) :
            FenceAt(cs, i) /\ \E j \in (i + 3)..Len(cs) : FenceAt(cs, j)}

\* the text from position a up to the next fence, trimmed
InteriorFrom(s, a) ==
    LET cs == Chars(s)
        close == SetMin({j \in a..Len(cs) : FenceAt(cs, j)})
    IN  Trimmed(SubSeq(cs, a, close - 1))

\* what the priority rule gives for a text
ExtractByPriority(s) ==
    IF SqlBlockOpenings(s) /= {} THEN InteriorFrom(s, SetMin(SqlBlockOpenings(s)) + 4)
    ELSE IF BlockOpenings(s) /= {} THEN InteriorFrom(s, SetMin(BlockOpenings(s)) + 3)
    ELSE Trimmed(s)

\* C16: the extractor follows a strict priority on every text: the interior of
\* the first sql-tagged fenced block if there is one, even when an untagged
\* block comes earlier; otherwise the interior of the first fenced block;
\* otherwise the trimmed raw text.
C16_ExtractFollowsPriority ==
    x_pc \in {"once", "twice"} => Chars(x_result) = Chars(ExtractByPriority(x_text))

\* an untagged block followed by an sql-tagged block gave the sql block
C16_Witness ==
    /\ x_pc = "once"
    /\ x_text = <<Fence, " ", "x", "\n", Fence, "\n",
                  Fence, "sql", "\n", "y", " ", "\n", Fence>>
    /\ x_result = <<"y">>

-----------------------------------------------------------------------------
(* Properties of is_time_based_query, checked under SpecClassify.           *)

\* the text holds one of the listed signals, in any letter case: the name of
\* a date function (DATE_FORMAT, DATE_SUB, DATE_ADD, DATE_DIFF anywhere; YEAR,
\* MONTH, DAY, QUARTER, WEEK in front of a parenthesis), BETWEEN with an AND
\* after it, ">" or "<" in front of a YYYY-MM-DD literal, GROUP BY with year,
\* month, quarter or date after it, or a placeholder token
HasListedSignal(query) ==
    \/ \E i \in 1..Len(query) : \E kw \in {"DATE_FORMAT", "DATE_SUB", "DATE_ADD", "DATE_DIFF",
                                             "[MIN_DATE]", "[MAX_DATE]"} :
            Has(query[i], kw)
    \/ \E i \in 1..Len(query) : \E j \in (i + 1)..Len(query) :
            /\ \E kw \in {"YEAR", "MONTH", "DAY", "QUARTER", "WEEK"} : EndsWith(query[i], kw)
            /\ query[j] = "("
            /\ \A k \in (i + 1)..(j - 1) : IsSpace(query[k])
    \/ \E i \in 1..Len(query) : \E j \in (i + 1)..Len(query) :
            Has(query[i], "BETWEEN") /\ Has(query[j], "AND")
    \/ \E i \in 1..Len(query) : \E j \in (i + 1)..Len(query) :
            /\ query[i] \in {">", "<"}
            /\ IsDateLiteral(query[j])
            /\ \A k \in (i + 1)..(j - 1) : IsSpace(query[k])
    \/ \E i \in 1..Len(query) : \E j \in (i + 1)..Len(query) :
            /\ Upper(query[i]) = "GROUP BY"
            /\ \E kw \in {"YEAR", "MONTH", "QUARTER", "DATE"} : Has(query[j], kw)

\* C17: is_time_based_query returns true for every text holding at least one
\* listed signal, in any letter case, and false for every text holding none.
C17_TrueExactlyOnListedSignals ==
    cl_pc = "done" => (cl_result = HasListedSignal(cl_query))

\* C18: is_time_based_query returns a boolean for every text, and the same
\* boolean in whatever order the patterns are tried; the order changes only
\* how many patterns are tried, never more than the whole list.
C18_OrderDoesNotChangeResult ==
    cl_pc = "done" =>
        /\ cl_result \in BOOLEAN
        /\ cl_result = is_time_based_query(cl_query)
        /\ cl_result = (\E n \in 1..NPatterns : PatternMatches(time_patterns[n], cl_query))
        /\ cl_tried \in 1..NPatterns

\* a text matching two patterns was classified with the list reversed: the
\* loop stopped at another pattern than the list's own order would, with the
\* same answer
C18_Witness ==
    /\ cl_pc = "done"
    /\ cl_query = <<"BETWEEN", "and", "[min_date]">>
    /\ cl_order = Reversed(Rotation(0))
    /\ cl_result = TRUE
    /\ cl_tried = 2
    /\ FirstMatch(time_patterns, cl_query) = 10

-----------------------------------------------------------------------------
(* Properties of the model calls, checked under SpecPipeline.               *)

\* the refiner's calls so far are one per item, in the order of the batch
OneCallPerItem ==
    /\ Len(llm_calls) <= NQueries
    /\ \A i \in 1..Len(llm_calls) :
          llm_calls[i] = InvokeInput(query_request, query_request.queries[i])

\* the entries of the list that report the failure of item i
FailureReports(i) ==
    {k \in 1..Len(updated_queries) :
        /\ updated_queries[k].query_id = query_request.queries[i].query_id
        /\ updated_queries[k].success = FALSE
        /\ updated_queries[k].error = llm_reply[i].error}

\* C19: there is no retry. Within one batch refinement the model is invoked
\* at most once per item, and an invocation that failed is reported once, as
\* the failure of its item; one draft generation invokes the model exactly
\* once, and so does one NL-to-SQL call whose prompt could be built.
C19_NoRetry ==
    /\ OneCallPerItem
    /\ \A i \in 1..Len(llm_calls) :
          ~llm_reply[i].ok =>
              /\ Cardinality(FailureReports(i)) = 1
              /\ r_pc /= "raised"
    /\ Len(dg_llm_calls) = (IF dg_pc \in {"returned", "raised"} THEN 1 ELSE 0)
    /\ Len(nlq_llm_calls) =
          (IF nlq_pc \in {"converted", "responded"} /\ nlq_request.db_type /= None
           THEN 1 ELSE 0)

-----------------------------------------------------------------------------
(* Properties of a process serving several calls, checked under            *)
(* SpecSession.                                                            *)

-----------------------------------------------------------------------------
(* Properties of the batch a draft generation returns, checked under       *)
(* SpecDraft.                                                               *)

\* C21: in the batch returned by a draft generation call, each item's
\* is_time_based flag is the classifier's verdict on that item's query text:
\* the flag is true exactly when is_time_based_query(query) is true.
C21_FlagIsClassifierVerdict ==
    dg_pc = "returned" =>
        \A i \in 1..Len(dg_queries) :
            dg_queries[i].is_time_based = is_time_based_query(dg_queries[i].query)

\* the model call returned and its reply was parsed and validated
DraftSucceeded == DraftChainInvoke(draft_reply)[1] = "ok"

\* entry k of the returned batch stems from item k of the model's reply: the
\* chart type and the flag are the reply's, the relevance is the reply's
\* rounded, and the texts are the reply's unless dates were substituted
StemsFrom(item, raw) ==
    /\ item.chart_type = raw.chart_type
    /\ item.is_time_based = raw.is_time_based
    /\ item.relevance = Round2(raw.relevance)
    /\ (item.query = raw.query
           \/ (raw.is_time_based /\ (Len(min_max_dates) = 2 \/ dg_rev = "root")))

\* C22: on success the list returned by the draft generator, and the one
\* returned by get_queries_for_executor, has exactly as many entries as the
\* model's parsed reply, in the model's order, with duplicates kept: nothing is
\* dropped, reordered, or cut or padded to a requested count.
C22_BatchMirrorsReply ==
    (dg_pc = "returned" /\ DraftSucceeded) =>
        /\ Len(dg_queries) = Len(draft_reply.queries)
        /\ \A k \in 1..Len(dg_queries) : StemsFrom(dg_queries[k], draft_reply.queries[k])
        /\ executor_result.returned =>
              /\ Len(executor_result.queries_list) = Len(draft_reply.queries)
              /\ \A k \in 1..Len(draft_reply.queries) :
                    /\ StemsFrom(executor_result.queries_list[k], draft_reply.queries[k])
                    /\ executor_result.queries_list[k].query = dg_queries[k].query
                    /\ executor_result.queries_list[k].explanation = dg_queries[k].question

\* get_queries_for_executor returned both copies of a reply that holds the
\* same item twice
C22_Witness ==
    /\ dg_pc = "returned"
    /\ DraftSucceeded
    /\ Len(draft_reply.queries) = 2
    /\ draft_reply.queries[1] = draft_reply.queries[2]
    /\ executor_result.returned
    /\ Len(executor_result.queries_list) = 2
    /\ executor_result.queries_list[1] = executor_result.queries_list[2]

\* how many tokens of the text are tok
RECURSIVE Occurrences(_, _)
Occurrences(text, tok) ==
    IF text = <<>> THEN 0
    ELSE (IF Head(text) = tok THEN 1 ELSE 0) + Occurrences(Tail(text), tok)

\* generate_queries of the app revision was given two non-empty date bounds
BothBoundsSupplied ==
    /\ dg_rev = "app"
    /\ Len(min_max_dates) = 2
    /\ min_max_dates[1] /= <<>>
    /\ min_max_dates[2] /= <<>>

\* C23: when draft generation is called with both date bounds supplied as
\* non-empty ISO date strings, no returned item with is_time_based = true
\* holds the placeholder [MIN_DATE] or [MAX_DATE] in its query text: every
\* occurrence has become the min bound and the max bound respectively.
C23_NoPlaceholderLeft ==
    (dg_pc = "returned" /\ DraftSucceeded /\ BothBoundsSupplied) =>
        \A k \in 1..Len(dg_queries) :
            dg_queries[k].is_time_based =>
                LET out == dg_queries[k].query
                    in == draft_reply.queries[k].query
                    lo == min_max_dates[1][1]
                    hi == min_max_dates[2][1]
                IN  /\ Occurrences(out, "[MIN_DATE]") = 0
                    /\ Occurrences(out, "[MAX_DATE]") = 0
                    /\ Occurrences(out, lo) =
                          Occurrences(in, lo) + Occurrences(in, "[MIN_DATE]")
                    /\ Occurrences(out, hi) =
                          Occurrences(in, hi) + Occurrences(in, "[MAX_DATE]")

\* a flagged item whose query held both placeholders came back with the two
\* bounds in their place
C23_Witness ==
    /\ dg_pc = "returned"
    /\ BothBoundsSupplied
    /\ DraftSucceeded
    /\ Len(dg_queries) = 2
    /\ draft_reply.queries[2].query = BetweenQuery
    /\ dg_queries[2].is_time_based
    /\ Occurrences(dg_queries[2].query, "2024-01-01") = 1
    /\ Occurrences(dg_queries[2].query, "2024-12-31") = 1
    /\ Occurrences(dg_queries[2].query, "[MAX_DATE]") = 0

\* the model's item as a QueryItem: its relevance rounded to two decimals
ParsedItem(raw) == [raw EXCEPT !.relevance = Round2(raw.relevance)]

\* C24: draft generation leaves items untouched when there is nothing to
\* substitute. If the date-bounds list does not have exactly two non-empty
\* entries, every returned item equals the model's item field for field; when
\* bounds are supplied, every item the model flagged is_time_based = false is
\* returned field for field unchanged, and refined items keep their relevance
\* and chart_type.
C24_UntouchedWithoutSubstitution ==
    (dg_pc = "returned" /\ DraftSucceeded /\ dg_rev = "app") =>
        \A k \in 1..Len(dg_queries) :
            LET item == ParsedItem(draft_reply.queries[k])
            IN  /\ ~BothBoundsSupplied => dg_queries[k] = item
                /\ ~item.is_time_based => dg_queries[k] = item
                /\ dg_queries[k].relevance = item.relevance
                /\ dg_queries[k].chart_type = item.chart_type

\* with both bounds supplied, a flagged item was refined and an unflagged item
\* with the same placeholders came back as the model gave it
C24_Witness ==
    /\ dg_pc = "returned"
    /\ BothBoundsSupplied
    /\ DraftSucceeded
    /\ Len(dg_queries) = 2
    /\ draft_reply.queries[1].query = BetweenQuery
    /\ draft_reply.queries[1].is_time_based
    /\ dg_queries[1].query /= BetweenQuery
    /\ dg_queries[1].relevance = 500
    /\ draft_reply.queries[2].query = BetweenQuery
    /\ ~draft_reply.queries[2].is_time_based
    /\ dg_queries[2] = ParsedItem(draft_reply.queries[2])

-----------------------------------------------------------------------------
(* Properties of the batch refiner's handling of its date bounds, checked   *)
(* under SpecRefine.                                                        *)

\* the position of an ISO date of the model on the calendar
DateRank(d) ==
    CASE d = "2020-01-01" -> 1
      [] d = "2023-12-31" -> 2
      [] d = "2024-01-01" -> 3
      [] d = "2024-12-31" -> 4
      [] OTHER -> 0

\* the request's min_date is later than its max_date
MinAfterMax == DateRank(query_request.min_date) > DateRank(query_request.max_date)

\* the same request with its two bounds exchanged
SwappedRequest ==
    [query_request EXCEPT !.min_date = query_request.max_date,
                          !.max_date = query_request.min_date]

\* how the call ended: what it returned or what it raised
RefineOutcome ==
    IF r_pc = "returned" THEN <<"return", updated_queries>> ELSE <<"raise", r_exc>>

\* C25: the batch refiner does not enforce min_date <= max_date. A request
\* whose min_date is later than its max_date is processed like any other:
\* one model call per item, carrying the bounds as given, and the call ends as
\* it does for the same request with the bounds in order.
C25_ReversedBoundsProcessedAlike ==
    MinAfterMax =>
        /\ Len(llm_calls) <= NQueries
        /\ \A i \in 1..Len(llm_calls) :
              /\ llm_calls[i].original_query = query_request.queries[i].query
              /\ llm_calls[i].min_date = query_request.min_date
              /\ llm_calls[i].max_date = query_request.max_date
        /\ r_pc = "returned" => Len(llm_calls) = NQueries
        /\ RefineEnded => RefineOutcome = RefineBatch(SwappedRequest, llm_reply)

\* a two-item request with min_date after max_date returned two successful
\* entries after two calls that carried the bounds as given
C25_Witness ==
    /\ MinAfterMax
    /\ r_pc = "returned"
    /\ http_status = 200
    /\ Len(llm_calls) = 2
    /\ llm_calls[2].min_date = "2024-12-31"
    /\ llm_calls[2].max_date = "2024-01-01"
    /\ Len(updated_queries) = 2
    /\ updated_queries[1].success /\ updated_queries[2].success

-----------------------------------------------------------------------------
(* refine_time_based_query applied to a query text and two bounds, in the   *)
(* revision of src/app/services/query_generator.py (bounds are arguments)  *)
(* and in that of src/query_generator.py (bounds are fetched).              *)

\* longest query text handed to refine_time_based_query, in tokens
MaxSubst == 3

\* the tokens the query texts are made of
SubstTokens == {"x", " ", "'", "[MIN_DATE]", "[MAX_DATE]", "YEAR", "("}

SubstTexts == UNION {[1..n -> SubstTokens] : n \in 0..MaxSubst}

\* (min_date, max_date): both given, the first empty, both None
SubstDates ==
    { << <<"2024-01-01">>, <<"2024-12-31">> >>,
      << <<>>, <<"2024-12-31">> >>,
      << NoneText, NoneText >> }

InitSubstitute ==
    /\ sub_rev \in {"app", "root"}
    /\ sub_query \in SubstTexts
    /\ sub_dates \in SubstDates
    /\ sub_pc = "call"
    /\ sub_result = <<>>
    /\ RefineOff /\ DraftOff /\ NlqOff /\ ValidateOff
    /\ ExtractOff /\ ClassifyOff /\ SessionOff
    /\ HandlerOff /\ ExecutorOff /\ FlightOff

\* one call of refine_time_based_query
Substitute ==
    /\ sub_pc = "call"
    /\ sub_result' =
          IF sub_rev = "app"
          THEN refine_time_based_query(sub_query, sub_dates[1], sub_dates[2])
          ELSE refine_time_based_query_root(sub_query, sub_dates)
    /\ sub_pc' = "done"
    /\ UNCHANGED <<sub_rev, sub_query, sub_dates>>
    /\ UNCHANGED <<refine_vars, draft_vars, nlq_vars, validate_vars, extract_vars,
                   classify_vars, session_vars, handler_vars, executor_vars,
                   flight_vars>>

NextSubstitute == Substitute

SpecSubstitute == InitSubstitute /\ [][NextSubstitute]_vars

-----------------------------------------------------------------------------
(* Properties of the placeholder substitution, checked under               *)
(* SpecSubstitute.                                                          *)

\* the text with each [MIN_DATE] token turned into lo and each [MAX_DATE]
\* token into hi, and every other token as it was
RECURSIVE PlaceholdersFilled(_, _, _)
PlaceholdersFilled(text, lo, hi) ==
    IF text = <<>> THEN <<>>
    ELSE (CASE Head(text) = "[MIN_DATE]" -> lo
            [] Head(text) = "[MAX_DATE]" -> hi
            [] OTHER -> <<Head(text)>>)
         \o PlaceholdersFilled(Tail(text), lo, hi)

\* C26: the local placeholder substitution changes only placeholder tokens.
\* Given two bounds, its output is the input with each [MIN_DATE] replaced by
\* the min bound and each [MAX_DATE] by the max bound and every other
\* character, doubled single quotes included, unchanged; a query with no
\* placeholder is returned identical.
C26_OnlyPlaceholdersChange ==
    (sub_pc = "done" /\ Truthy(sub_dates[1]) /\ Truthy(sub_dates[2])) =>
        sub_result = PlaceholdersFilled(sub_query, sub_dates[1], sub_dates[2])

-----------------------------------------------------------------------------
(* Properties of the draft generator's error handling, checked under       *)
(* SpecDraft.                                                               *)

\* the reply holds an item that SQLQueryItem validation rejects
ReplyHasInvalidItem ==
    /\ draft_reply.kind = "items"
    /\ \E i \in 1..Len(draft_reply.queries) :
          \/ ~(0 <= draft_reply.queries[i].relevance
                  /\ draft_reply.queries[i].relevance <= 1000)
          \/ draft_reply.queries[i].chart_type \notin valid_chart_types

\* the item is the error sentinel of generate_queries
IsSentinelItem(item) ==
    /\ item.question = <<"Error generating queries">>
    /\ item.query[1] = "-- Error: "

\* C27: draft generation is all-or-nothing. If any single item of the model's
\* batch fails validation, the returned batch is the one-item error sentinel
\* and holds none of the batch's valid items; a returned batch never mixes the
\* sentinel with real items.
C27_AllOrNothing ==
    /\ (dg_rev = "app" /\ dg_pc \in {"returned", "raised"} /\ ReplyHasInvalidItem) =>
          /\ dg_pc = "returned"
          /\ Len(dg_queries) = 1
          /\ IsSentinelItem(dg_queries[1])
          /\ \A i \in 1..Len(draft_reply.queries) :
                dg_queries[1].query /= draft_reply.queries[i].query
    /\ dg_pc = "returned" =>
          ((\E k \in 1..Len(dg_queries) : IsSentinelItem(dg_queries[k]))
              => Len(dg_queries) = 1)

\* a reply whose first item is valid and whose second has an unrecognized
\* chart type came back as the sentinel alone
C27_Witness ==
    /\ dg_rev = "app"
    /\ dg_pc = "returned"
    /\ draft_reply.kind = "items"
    /\ Len(draft_reply.queries) = 2
    /\ SQLQueryItem(draft_reply.queries[1])[1] = "ok"
    /\ draft_reply.queries[2].chart_type = Scatter
    /\ draft_reply.queries[2].relevance = 700
    /\ Len(dg_queries) = 1
    /\ IsSentinelItem(dg_queries[1])

-----------------------------------------------------------------------------
(* The request handler get_queries of src/app/api/queries.py: it turns the  *)
(* request's two dates into the min_max_dates list, constructs the          *)
(* generator and returns what get_queries_for_executor gives.               *)

\* str.split("T")[0]: the text before the first "T"
RECURSIVE SplitAtT(_)
SplitAtT(text) ==
    IF text = <<>> \/ Head(text) = "T" THEN <<>>
    ELSE <<Head(text)>> \o SplitAtT(Tail(text))

\* a faulty variant of ProcessedDateRange that is content with one bound
ProcessedDateRangeEither(min_date, max_date) ==
    IF Truthy(min_date) \/ Truthy(max_date)
    THEN << (IF Truthy(min_date) THEN SplitAtT(min_date) ELSE min_date),
            (IF Truthy(max_date) THEN SplitAtT(max_date) ELSE max_date) >>
    ELSE <<>>

\* lines 19-35: min_max_dates stays [] unless both request dates are truthy;
\* a str date is cut at its first "T" (split returns the whole text when
\* there is none)
ProcessedDateRange(min_date, max_date) ==
    IF Truthy(min_date) /\ Truthy(max_date)
    THEN <<SplitAtT(min_date), SplitAtT(max_date)>>
    ELSE <<>>

\* the values of min_date and of max_date in a request: left out (None),
\* empty, a date, and date-times with one and with two "T"
RequestDates ==
    { NoneText, <<>>, <<"2024-01-01">>, <<"2024-01-01", "T", "00:00:00">>,
      <<"2024-12-31", "T", "23:59:59", "T">> }

RequestDbTypes == {"mysql", "Oracle"}

InitHandler ==
    /\ request_data \in [min_date : RequestDates, max_date : RequestDates,
                         db_type : RequestDbTypes]
    /\ h_reply \in DraftReplies
    /\ h_pc = "call"
    /\ h_min_max_dates = <<>>
    /\ h_response = NoList
    /\ h_status = 0
    /\ RefineOff /\ DraftOff /\ NlqOff /\ ValidateOff
    /\ ExtractOff /\ ClassifyOff /\ SessionOff
    /\ SubstituteOff /\ ExecutorOff /\ FlightOff

\* the whole of get_queries for one request
get_queries ==
    /\ h_pc = "call"
    /\ LET dates == ProcessedDateRange(request_data.min_date, request_data.max_date)
           out == generate_queries("app", h_reply, dates, <<>>)
       IN  /\ h_min_max_dates' = dates
           /\ IF out[1] = "return"
              THEN /\ h_response' = [returned |-> TRUE,
                                     queries_list |-> QueriesList(out[2])]
                   /\ h_status' = 200
              ELSE \* except Exception: HTTPException(status_code=500)
                   /\ h_response' = NoList
                   /\ h_status' = 500
    /\ h_pc' = "done"
    /\ UNCHANGED <<request_data, h_reply>>
    /\ UNCHANGED <<refine_vars, draft_vars, nlq_vars, validate_vars, extract_vars,
                   classify_vars, session_vars, substitute_vars, executor_vars,
                   flight_vars>>

NextHandler == get_queries

SpecHandler == InitHandler /\ [][NextHandler]_vars

-----------------------------------------------------------------------------
(* Properties of the generate request handler, checked under SpecHandler.   *)

\* the request carries the date: it is neither left out nor empty
Supplied(date) == date /= NoneText /\ Len(date) > 0

\* the text up to, and without, its first "T"
TruncatedBeforeT(date) ==
    LET at == {i \in 1..Len(date) : date[i] = "T"}
    IN  IF at = {} THEN date ELSE SubSeq(date, 1, SetMin(at) - 1)

\* C28: in the generate request handler, date bounds are applied only as a
\* pair. If exactly one of min_date and max_date is supplied, or either is
\* empty, the generator receives an empty bounds list and substitutes nothing;
\* when both are supplied, each bound passed on is the request value truncated
\* before its first 'T', in the order [min, max].
C28_BoundsAppliedAsPair ==
    h_pc = "done" =>
        IF Supplied(request_data.min_date) /\ Supplied(request_data.max_date)
        THEN h_min_max_dates = << TruncatedBeforeT(request_data.min_date),
                                  TruncatedBeforeT(request_data.max_date) >>
        ELSE /\ h_min_max_dates = <<>>
             /\ DraftChainInvoke(h_reply)[1] = "ok" =>
                   /\ h_status = 200
                   /\ Len(h_response.queries_list) = Len(h_reply.queries)
                   /\ \A k \in 1..Len(h_reply.queries) :
                         /\ h_response.queries_list[k].query = h_reply.queries[k].query
                         /\ h_response.queries_list[k].explanation =
                               h_reply.queries[k].question

\* a request with two date-times: the generator got the two dates cut at the
\* first "T", min first, and substituted them in a flagged item
C28_Witness ==
    /\ h_pc = "done"
    /\ request_data.min_date = <<"2024-01-01", "T", "00:00:00">>
    /\ request_data.max_date = <<"2024-12-31", "T", "23:59:59", "T">>
    /\ h_min_max_dates = << <<"2024-01-01">>, <<"2024-12-31">> >>
    /\ h_status = 200
    /\ h_reply.kind = "items"
    /\ Len(h_reply.queries) = 1
    /\ h_reply.queries[1].query = BetweenQuery
    /\ Len(h_response.queries_list) = 1
    /\ Occurrences(h_response.queries_list[1].query, "2024-01-01") = 1
    /\ Occurrences(h_response.queries_list[1].query, "2024-12-31") = 1

-----------------------------------------------------------------------------
(* One batch refinement step by step: update_chain.invoke is entered, runs  *)
(* at the model provider, and comes back with a result or an exception.     *)

\* a faulty variant of MayIssue that lets a call start while others run
MayIssueWhileInFlight(flight) == TRUE

\* update_chain.invoke is a blocking call inside the loop body, with no await
\* and no task or thread around it: the loop reaches the next item only after
\* the call came back and its entry was appended
MayIssue(flight) == flight = {}

InitFlight == InitRefine

\* update_chain.invoke({...}) is entered for the next item
IssueCall ==
    /\ r_pc = "loop"
    /\ Len(llm_calls) < Len(query_request.queries)
    /\ MayIssue(in_flight)
    /\ LET k == Len(llm_calls) + 1
       IN  /\ llm_calls' = Append(llm_calls, InvokeInput(query_request, query_request.queries[k]))
           /\ in_flight' = in_flight \cup {k}
    /\ UNCHANGED <<query_request, llm_reply, r_pc, r_i, updated_queries, r_exc,
                   http_status, su_pc, su_result>>
    /\ UNCHANGED <<draft_vars, nlq_vars, validate_vars, extract_vars, classify_vars,
                   session_vars, substitute_vars, handler_vars, executor_vars>>

\* the call of the item the loop stands at comes back: the rest of the try
\* block, or the except block; the calls still running when an exception
\* leaves the function stay in in_flight, cut off
CompleteCall ==
    /\ r_pc = "loop"
    /\ r_i \in in_flight
    /\ LET step == RefineOne(query_request.queries[r_i], llm_reply[r_i])
       IN  IF step[1] = "append"
           THEN /\ updated_queries' = AppendEntry(updated_queries, step[2])
                /\ r_i' = r_i + 1
                /\ UNCHANGED <<r_pc, r_exc, http_status>>
           ELSE /\ r_pc' = "raised"
                /\ r_exc' = step[2]
                /\ http_status' = 500
                /\ UNCHANGED <<updated_queries, r_i>>
    /\ in_flight' = in_flight \ {r_i}
    /\ UNCHANGED <<query_request, llm_reply, llm_calls, su_pc, su_result>>
    /\ UNCHANGED <<draft_vars, nlq_vars, validate_vars, extract_vars, classify_vars,
                   session_vars, substitute_vars, handler_vars, executor_vars>>

NextFlight == IssueCall \/ CompleteCall \/ RefineReturn

SpecFlight == InitFlight /\ [][NextFlight]_vars

-----------------------------------------------------------------------------
(* Properties of the order of the model calls, checked under SpecFlight.    *)

\* C29: within one batch refinement the model requests are issued strictly
\* one at a time in input order. The request for item k+1 is never issued
\* before the result entry for item k has been appended, so at most one model
\* call of a batch is in flight at any moment and no failure cuts off a
\* sibling call.
C29_OneCallInFlight ==
    /\ Cardinality(in_flight) <= 1
    /\ \A k \in 1..Len(llm_calls) :
          /\ llm_calls[k].original_query = query_request.queries[k].query
          /\ k > 1 => Len(updated_queries) >= k - 1
    /\ \A k \in in_flight : k = Len(llm_calls) /\ Len(updated_queries) = k - 1
    /\ r_pc \in {"returned", "raised"} => in_flight = {}

\* the call for the second item is in flight, and the entry of the first item
\* is already in the list
C29_Witness ==
    /\ r_pc = "loop"
    /\ in_flight = {2}
    /\ Len(llm_calls) = 2
    /\ Len(updated_queries) = 1
    /\ updated_queries[1].query_id = query_request.queries[1].query_id

-----------------------------------------------------------------------------
(* DatabaseQueryExecutor.execute_queries of src/app/utils/query_exec.py     *)
(* ("app") and of the older src/query_exec.py ("root").  A query_info dict  *)
(* is a record with the set of its keys; the database is an oracle fixed in *)
(* the initial state.                                                       *)

\* longest list of queries handed to execute_queries
MaxExec == 3

\* the query_info dicts: all keys, the query alone, and no query
QueryInfos ==
    { [keys |-> {"query", "explanation", "relevance", "chart_type"},
       query |-> <<"x">>, explanation |-> <<"y">>, relevance |-> 900, chart_type |-> Bar],
      [keys |-> {"query"},
       query |-> <<"y">>, explanation |-> <<>>, relevance |-> 0, chart_type |-> <<>>],
      [keys |-> {"explanation"},
       query |-> <<>>, explanation |-> <<"y">>, relevance |-> 0, chart_type |-> <<>>] }

\* what the database does with one query: it returns rows (the row "bad" is
\* one whose conversion to a dict raises), or connecting or executing raises
DbOutcomes ==
    { [raises |-> FALSE, rows |-> <<>>, msg |-> None],
      [raises |-> FALSE, rows |-> <<"r", "bad">>, msg |-> None],
      [raises |-> TRUE, rows |-> <<>>, msg |-> "syntax error"] }

\* query_info.get(key, default) for the three optional keys
GetExplanation(query_info) ==
    IF "explanation" \in query_info.keys THEN query_info.explanation
    ELSE <<"No explanation provided">>
GetRelevance(query_info) ==
    IF "relevance" \in query_info.keys THEN query_info.relevance ELSE 0
GetChartType(query_info) ==
    IF "chart_type" \in query_info.keys THEN query_info.chart_type
    ELSE <<"Not specified">>

\* the inner try: one dict per row, an error dict for a row that raises
QueryResults(rows) ==
    [n \in 1..Len(rows) |->
        IF rows[n] = "bad" THEN [error |-> "row error", row_data |-> rows[n]]
        ELSE [column_0 |-> rows[n]]]

\* the dict appended at the end of the try block
ResultsEntry(rev, query_info, rows) ==
    IF rev = "app"
    THEN [query |-> query_info.query, explanation |-> GetExplanation(query_info),
          relevance |-> GetRelevance(query_info),
          chart_type |-> GetChartType(query_info),
          results |-> QueryResults(rows)]
    ELSE [query |-> query_info.query, explanation |-> GetExplanation(query_info),
          results |-> QueryResults(rows)]

\* the dict appended in the except block
ErrorEntry(rev, query_info, msg) ==
    IF rev = "app"
    THEN [query |-> query_info.query, explanation |-> GetExplanation(query_info),
          relevance |-> GetRelevance(query_info),
          chart_type |-> GetChartType(query_info),
          error |-> msg]
    ELSE [query |-> query_info.query, explanation |-> GetExplanation(query_info),
          error |-> msg]

\* a faulty variant of ExecuteQuery without the except block
ExecuteQueryAborting(rev, query_info, outcome) ==
    IF "query" \notin query_info.keys THEN <<"raise", "KeyError: 'query'">>
    ELSE IF outcome.raises THEN <<"raise", outcome.msg>>
    ELSE <<"append", ResultsEntry(rev, query_info, outcome.rows)>>

\* one pass of the loop body: <<"append", entry>> or <<"raise", message>>;
\* query_info['query'] is read before the try block
ExecuteQuery(rev, query_info, outcome) ==
    IF "query" \notin query_info.keys THEN <<"raise", "KeyError: 'query'">>
    ELSE IF outcome.raises THEN <<"append", ErrorEntry(rev, query_info, outcome.msg)>>
    ELSE <<"append", ResultsEntry(rev, query_info, outcome.rows)>>

InitExecutor ==
    /\ ex_rev \in {"app", "root"}
    /\ \E n \in 0..MaxExec :
          /\ ex_queries \in [1..n -> QueryInfos]
          /\ ex_db \in [1..n -> DbOutcomes]
    /\ ex_pc = "loop"
    /\ ex_i = 1
    /\ results = <<>>
    /\ ex_executed = {}
    /\ ex_exc = None
    /\ RefineOff /\ DraftOff /\ NlqOff /\ ValidateOff
    /\ ExtractOff /\ ClassifyOff /\ SessionOff
    /\ SubstituteOff /\ HandlerOff /\ FlightOff

\* one iteration of `for query_info in queries`
ExecuteOne ==
    /\ ex_pc = "loop"
    /\ ex_i <= Len(ex_queries)
    /\ LET step == ExecuteQuery(ex_rev, ex_queries[ex_i], ex_db[ex_i])
       IN  IF step[1] = "append"
           THEN /\ results' = Append(results, step[2])
                /\ ex_executed' = ex_executed \cup {ex_i}
                /\ ex_i' = ex_i + 1
                /\ UNCHANGED <<ex_pc, ex_exc>>
           ELSE /\ ex_pc' = "raised"
                /\ ex_exc' = step[2]
                /\ UNCHANGED <<results, ex_executed, ex_i>>
    /\ UNCHANGED <<ex_rev, ex_queries, ex_db>>
    /\ UNCHANGED <<refine_vars, draft_vars, nlq_vars, validate_vars, extract_vars,
                   classify_vars, session_vars, substitute_vars, handler_vars,
                   flight_vars>>

\* return results
ExecuteReturn ==
    /\ ex_pc = "loop"
    /\ ex_i > Len(ex_queries)
    /\ ex_pc' = "returned"
    /\ UNCHANGED <<ex_rev, ex_queries, ex_db, ex_i, results, ex_executed, ex_exc>>
    /\ UNCHANGED <<refine_vars, draft_vars, nlq_vars, validate_vars, extract_vars,
                   classify_vars, session_vars, substitute_vars, handler_vars,
                   flight_vars>>

NextExecutor == ExecuteOne \/ ExecuteReturn

SpecExecutor == InitExecutor /\ [][NextExecutor]_vars

-----------------------------------------------------------------------------
(* Properties of the query executor, checked under SpecExecutor.            *)

\* every input dict carries a query text
EveryInputHasQuery ==
    \A i \in 1..Len(ex_queries) : "query" \in ex_queries[i].keys

\* C30: execute_queries returns exactly one result entry per input query, in
\* input order, each carrying the query text and either a 'results' list or
\* an 'error' string but never both; a query whose execution raises yields an
\* 'error' entry and every later query is still executed.
C30_EntryPerQuery ==
    EveryInputHasQuery =>
        /\ ex_pc /= "raised"
        /\ Len(results) = ex_i - 1
        /\ ex_executed = 1..Len(results)
        /\ ex_pc = "returned" => Len(results) = Len(ex_queries)
        /\ \A k \in 1..Len(results) :
              /\ results[k].query = ex_queries[k].query
              /\ ("results" \in DOMAIN results[k]) /= ("error" \in DOMAIN results[k])
              /\ ex_db[k].raises <=> "error" \in DOMAIN results[k]
              /\ ex_db[k].raises => results[k].error = ex_db[k].msg

\* three queries of which the first raised: the call returned three entries,
\* an error entry followed by two entries with results
C30_Witness ==
    /\ ex_pc = "returned"
    /\ Len(ex_queries) = 3
    /\ ex_db[1].raises
    /\ ~ex_db[2].raises /\ ~ex_db[3].raises
    /\ Len(results) = 3
    /\ results[1].error = "syntax error"
    /\ "results" \in DOMAIN results[2]
    /\ Len(results[3].results) = 2
    /\ ex_executed = {1, 2, 3}

-----------------------------------------------------------------------------
Init ==
    InitRefine \/ InitDraft \/ InitValidate \/ InitNlq \/ InitExtract \/ InitClassify
        \/ InitSession \/ InitSubstitute \/ InitHandler \/ InitFlight \/ InitExecutor

Next ==
    NextRefine \/ NextDraft \/ NextValidate \/ NextNlq \/ NextExtract \/ NextClassify
        \/ NextSession \/ NextSubstitute \/ NextHandler \/ NextFlight \/ NextExecutor

Spec == Init /\ [][Next]_vars

====
